---------------------------- MODULE Spec2Model ----------------------------
(***************************************************************************)
(* Student analytics: the triangulation and classification engine.         *)
(*                                                                         *)
(* Numbers of the program are floats.  The model keeps every numeric value *)
(* as an integer number of "ticks", one tick being 1/Scale, so that        *)
(* decimal stanines, percentiles and SAS scores are exact rationals and    *)
(* `<` can be told from `<=`.                                              *)
(***************************************************************************)
EXTENDS Integers, Sequences, FiniteSets, TLC

\* ------------------------------------------------------------ bounds
\* Ticks per unit: values range over multiples of 1/Scale.
Scale == 2
\* PASS percentiles range over 0..MaxPercentile.
MaxPercentile == 100
\* Stanines range over (1 - StanineMargin)..(9 + StanineMargin).
StanineMargin == 2
\* SAS scores range over SasLo..SasHi.
SasLo == 60
SasHi == 145

T(x) == x * Scale

PercentileTicks == 0..T(MaxPercentile)
StanineTicks == T(1 - StanineMargin)..T(9 + StanineMargin)
SasTicks == T(SasLo)..T(SasHi)
IntegerStanines == 1..9

\* ------------------------------------------------------------ Score Converter

\* A slip of the table: three entries one SAS point up.
stanine_to_sas_map_other == <<74, 81, 89, 96, 104, 112, 120, 127, 141>>

\* The stanine -> SAS table, indexed 1..9.
stanine_to_sas_map == <<74, 81, 88, 96, 103, 112, 119, 127, 141>>

\* Python's int(x) of x = n/Scale: truncation toward zero.
PyInt(n) == IF n >= 0 THEN n \div Scale ELSE -((-n) \div Scale)

\* `stanine in stanine_to_sas_map`: the float equals one of the keys 1..9.
InMap(n) == n % Scale = 0 /\ (n \div Scale) \in DOMAIN stanine_to_sas_map

\* dict.get(key, default) on the table.
MapGet(k, default) ==
    IF k \in DOMAIN stanine_to_sas_map THEN stanine_to_sas_map[k] ELSE default

\* TriangulatedAnalyticsEngine._stanine_to_sas (the same text is in
\* fixed_migration.py and standalone_migration.py).  Argument and result in ticks.
stanine_to_sas(n) ==
    IF InMap(n) THEN T(stanine_to_sas_map[n \div Scale])
    ELSE LET lower == PyInt(n)
             upper == lower + 1
         IN  IF lower < 1 THEN T(74)
             ELSE IF upper > 9 THEN T(141)
             ELSE LET lower_sas == MapGet(lower, 74)
                      upper_sas == MapGet(upper, 141)
                      fraction  == n - T(lower)
                  IN  T(lower_sas) + (upper_sas - lower_sas) * fraction

\* simple_classification_fix.stanine_to_sas: table lookup of int(stanine),
\* 103 when the key is missing.
stanine_to_sas_simple(n) == T(MapGet(PyInt(n), 103))

\* A slip of the cut points: `<` for `<=`.
sas_to_stanine_strict(m) ==
    IF m < T(74) THEN 1
    ELSE IF m < T(81) THEN 2
    ELSE IF m < T(88) THEN 3
    ELSE IF m < T(96) THEN 4
    ELSE IF m < T(103) THEN 5
    ELSE IF m < T(112) THEN 6
    ELSE IF m < T(119) THEN 7
    ELSE IF m < T(127) THEN 8
    ELSE 9

\* TriangulatedAnalyticsEngine._sas_to_stanine (the same chain is in
\* fix_cat4_domains.sas_to_stanine and inline in direct_data_loader.load_cat4_data).
\* Argument in ticks, result a plain stanine.
sas_to_stanine(m) ==
    IF m <= T(74) THEN 1
    ELSE IF m <= T(81) THEN 2
    ELSE IF m <= T(88) THEN 3
    ELSE IF m <= T(96) THEN 4
    ELSE IF m <= T(103) THEN 5
    ELSE IF m <= T(112) THEN 6
    ELSE IF m <= T(119) THEN 7
    ELSE IF m <= T(127) THEN 8
    ELSE 9

\* ------------------------------------------------------------ Domain classifiers

\* TriangulatedAnalyticsEngine.__init__: the threshold tables.
pass_thresholds == [strength |-> 65, balanced_min |-> 45, at_risk |-> 45]
cat4_thresholds == [strength |-> 110, balanced_min |-> 90, weakness |-> 90]
academic_thresholds == [strength |-> 7, balanced_min |-> 4, weakness |-> 4]

\* A slip of the PASS boundary: `>` for `>=`.
pass_level_strict(percentile) ==
    IF percentile > T(pass_thresholds.strength) THEN "strength"
    ELSE IF percentile > T(pass_thresholds.balanced_min) THEN "balanced"
    ELSE "at-risk"

\* The level chain of TriangulatedAnalyticsEngine._analyze_pass_data.
pass_level(percentile) ==
    IF percentile >= T(pass_thresholds.strength) THEN "strength"
    ELSE IF percentile >= T(pass_thresholds.balanced_min) THEN "balanced"
    ELSE "at-risk"

\* StudentAnalyticsEngine._format_pass_factors.
format_pass_level(percentile) ==
    IF percentile < T(45) THEN "at-risk"
    ELSE IF percentile >= T(65) THEN "strength"
    ELSE "balanced"

\* The level chain of the scripts and routes that store a PASS level:
\* upload_pass_data, load_pass_data, the three migrations, fix_classifications.
stored_pass_level(percentile) ==
    IF percentile >= T(65) THEN "strength"
    ELSE IF percentile >= T(45) THEN "balanced"
    ELSE "at-risk"

\* The level chain of TriangulatedAnalyticsEngine._analyze_cat4_data, on the SAS.
cat4_level(sas) ==
    IF sas > T(cat4_thresholds.strength) THEN "strength"
    ELSE IF sas >= T(cat4_thresholds.balanced_min) THEN "balanced"
    ELSE "weakness"

\* StudentAnalyticsEngine._format_cat4_domains: by the stanine itself.
format_cat4_level(stanine) ==
    IF stanine <= T(3) THEN "weakness"
    ELSE IF stanine >= T(7) THEN "strength"
    ELSE "balanced"

\* The level chain of the scripts and routes that store a CAT4 level from a SAS:
\* upload_cat4_data, load_cat4_data, fix_cat4_domains, the migrations.
stored_cat4_level(sas_score) ==
    IF sas_score > T(110) THEN "strength"
    ELSE IF sas_score >= T(90) THEN "balanced"
    ELSE "weakness"

\* A slip of the academic boundary: weakness below 3 instead of up to 3.
academic_level_strict(stanine) ==
    IF stanine >= T(academic_thresholds.strength) THEN "strength"
    ELSE IF stanine >= T(academic_thresholds.balanced_min - 1) THEN "balanced"
    ELSE "weakness"

\* The level chain of TriangulatedAnalyticsEngine._analyze_academic_data.
academic_level(stanine) ==
    IF stanine >= T(academic_thresholds.strength) THEN "strength"
    ELSE IF stanine >= T(academic_thresholds.balanced_min) THEN "balanced"
    ELSE "weakness"

\* StudentAnalyticsEngine._format_academic_subjects.
format_academic_level(stanine) ==
    IF stanine <= T(3) THEN "weakness"
    ELSE IF stanine >= T(7) THEN "strength"
    ELSE "balanced"

\* The level chain of the scripts and routes that store an academic level:
\* upload_asset_data, the migrations, fix_classifications.
stored_academic_level(stanine) ==
    IF stanine >= T(7) THEN "strength"
    ELSE IF stanine >= T(4) THEN "balanced"
    ELSE "weakness"

\* ------------------------------------------------------------ stored student

VARIABLES
    student,    \* the one student's rows in the database
    profile,    \* the response of the last engine call on the stored student
    fcall       \* the last call of a converter or of a level chain

vars == <<student, profile, fcall>>

\* A spreadsheet cell: a number (in ticks) or NaN (an empty cell).
Cell(v) == [nan |-> FALSE, v |-> v]
NaNCell == [nan |-> TRUE, v |-> 0]
\* pandas.notna
notna(c) == ~c.nan

\* The factor list of upload_pass_data, in the order the route builds it.
PassFactorNames ==
    << "Perceived Learning Capability", "Self-regard as a Learner",
       "Preparedness for Learning", "General Work Ethic",
       "Confidence in Learning", "Feelings about School",
       "Attitudes to Teachers", "Attitudes to Attendance",
       "Response to Curriculum" >>

\* The domain list of upload_cat4_data, in the order the route builds it.
Cat4DomainNames == << "Verbal", "Quantitative", "Non-verbal", "Spatial" >>

\* The subject list of upload_asset_data, in the order the route builds it.
SubjectNames == << "English", "Maths", "Science" >>

\* TriangulatedAnalyticsEngine.pass_p_mapping, with .get(name, 'Unknown').
pass_p_mapping(name) ==
    CASE name = "Perceived Learning Capability" -> "P1"
      [] name = "Confidence in Learning" -> "P2"
      [] name = "Self-regard as a Learner" -> "P3"
      [] name = "Attitudes to Teachers" -> "P4"
      [] name = "Response to Curriculum" -> "P5"
      [] name = "General Work Ethic" -> "P6"
      [] name = "Preparedness for Learning" -> "P7"
      [] name = "Attitudes to Attendance" -> "P8"
      [] name = "Feelings about School" -> "P9"
      [] OTHER -> "Unknown"

\* The mapped attributes of models.AcademicSubject.
AcademicSubjectAttrs ==
    {"id", "assessment_id", "name", "stanine", "percentile", "level",
     "comparison", "created_at", "updated_at", "assessment"}

\* No PASS / CAT4 assessment row (the relationship is None).
NoPass == [present |-> FALSE, average_percentile |-> [num |-> 0, den |-> 1],
           factors |-> <<>>]
NoCat4 == [present |-> FALSE, is_fragile_learner |-> FALSE,
           average_stanine |-> 0, fragile_flags |-> 0, domains |-> <<>>]

\* The database before any upload: no student row.
NoStudent ==
    [exists |-> FALSE, is_fragile_learner |-> FALSE,
     pass_assessment |-> NoPass, cat4_assessment |-> NoCat4,
     academic_assessments |-> <<>>]

NoProfile == [engine |-> "none"]
NoCall == [op |-> "none", arg |-> 0, num |-> 0, level |-> "none"]

\* min(a, b)
Least(a, b) == IF a < b THEN a ELSE b

\* Sum of a sequence of integers.
RECURSIVE SumSeq(_)
SumSeq(s) == IF s = <<>> THEN 0 ELSE Head(s) + SumSeq(Tail(s))

\* [f(x) for x in s]
MapSeq(s, F(_)) == [i \in 1..Len(s) |-> F(s[i])]

\* ------------------------------------------------------------ upload routes
\* One uploaded sheet holds one row, for the one student.  A row maps a column
\* to its cell; a column the sheet lacks reads as row.get(column, 0) = 0.

\* The percentiles, SAS scores and stanines the uploaded sheets hold.
PassCells == {NaNCell, Cell(0), Cell(T(30)), Cell(T(50)), Cell(T(70))}
Cat4Cells == {NaNCell, Cell(0), Cell(T(81)), Cell(T(89)), Cell(T(100)), Cell(T(112))}
MeanSasCells == {NaNCell, Cell(T(100))}
StanineCells == {NaNCell, Cell(T(3)), Cell(T(8))}
MarksCells == {Cell(0), Cell(T(55))}

\* The columns the uploaded sheets hold.
PassColumns == {"Self-regard as a Learner", "General Work Ethic"}
SubjectColumns == {"English", "Maths"}

PassRows == [PassColumns -> PassCells]
\* A CAT4 sheet holds the four SAS columns; the last two hold few values.
Cat4Rows ==
    {r \in [{"Verbal", "Quantitative", "Non-verbal", "Spatial"} -> Cat4Cells] :
        /\ r["Non-verbal"] \in {NaNCell, Cell(T(81))}
        /\ r["Spatial"] = NaNCell}
AssetRows == [SubjectColumns -> [marks : MarksCells, stanine : StanineCells]]

\* row.get(column, 0)
RowGet(row, column) == IF column \in DOMAIN row THEN row[column] ELSE Cell(0)

\* upload_asset_data, lines 99-118: the subjects stored for a row.
AssetSubjects(row) ==
    LET cell(name) == IF name \in DOMAIN row THEN row[name]
                      ELSE [marks |-> Cell(0), stanine |-> Cell(0)]
        kept == SelectSeq(SubjectNames,
                    LAMBDA name : notna(cell(name).marks) /\ cell(name).marks.v > 0)
        stored(name) ==
            LET stanine == IF notna(cell(name).stanine)
                           THEN cell(name).stanine.v ELSE T(5)
            IN  [name |-> name, stanine |-> stanine, percentile |-> 0,
                 level |-> stored_academic_level(stanine)]
    IN  MapSeq(kept, stored)

\* upload_asset_data: creates the student when missing, then stores one academic
\* assessment unless the student has one (the row's marks are then not read).
upload_asset_data ==
    \/ /\ student.academic_assessments # <<>>
       /\ student' = student
       /\ profile' = NoProfile
       /\ UNCHANGED fcall
    \/ /\ student.academic_assessments = <<>>
       /\ \E row \in AssetRows :
             student' = [student EXCEPT
                            !.exists = TRUE,
                            !.academic_assessments =
                                << [subjects |-> AssetSubjects(row)] >>]
       /\ profile' = NoProfile
       /\ UNCHANGED fcall

\* upload_pass_data, lines 253-307: the assessment stored for a row.
PassAssessmentOf(row) ==
    LET values == MapSeq(PassFactorNames, LAMBDA name : RowGet(row, name))
        valid_values == SelectSeq(values, LAMBDA c : notna(c) /\ c.v # 0)
        kept == SelectSeq(PassFactorNames,
                    LAMBDA name : notna(RowGet(row, name)) /\ RowGet(row, name).v > 0)
        stored(name) ==
            LET percentile == RowGet(row, name).v
            IN  [name |-> name, percentile |-> percentile,
                 level |-> stored_pass_level(percentile),
                 p_number |-> pass_p_mapping(name)]
    IN  [present |-> TRUE,
         average_percentile |->
            IF valid_values # <<>>
            THEN [num |-> SumSeq(MapSeq(valid_values, LAMBDA c : c.v)),
                  den |-> Len(valid_values)]
            ELSE [num |-> 0, den |-> 1],
         factors |-> MapSeq(kept, stored)]

\* upload_pass_data without the test for an existing assessment: the row of a
\* known student replaces what was stored.
upload_pass_data_overwrite ==
    \/ /\ ~student.exists
       /\ student' = student
       /\ profile' = NoProfile
       /\ UNCHANGED fcall
    \/ /\ student.exists
       /\ \E row \in PassRows :
             student' = [student EXCEPT !.pass_assessment = PassAssessmentOf(row)]
       /\ profile' = NoProfile
       /\ UNCHANGED fcall

\* upload_pass_data: skips a row whose student is unknown or already has a PASS
\* assessment (the row's percentiles are then not read).
upload_pass_data ==
    \/ /\ ~student.exists \/ student.pass_assessment.present
       /\ student' = student
       /\ profile' = NoProfile
       /\ UNCHANGED fcall
    \/ /\ student.exists /\ ~student.pass_assessment.present
       /\ \E row \in PassRows :
             student' = [student EXCEPT !.pass_assessment = PassAssessmentOf(row)]
       /\ profile' = NoProfile
       /\ UNCHANGED fcall

\* upload_cat4_data, lines 162-176: the number of the four SAS cells below 90.
\* A cell of 0, and a column the sheet lacks, count.
UploadFragileFlags(row) ==
    Cardinality({i \in DOMAIN Cat4DomainNames :
                    LET sas == RowGet(row, Cat4DomainNames[i])
                    IN  notna(sas) /\ sas.v < T(90)})

\* upload_cat4_data, lines 162-210: the assessment stored for a row.
Cat4AssessmentOf(row, mean_sas) ==
    LET fragile_flags == UploadFragileFlags(row)
        sas_of(name) == IF notna(RowGet(row, name)) THEN RowGet(row, name).v ELSE 0
        kept == SelectSeq(Cat4DomainNames, LAMBDA name : sas_of(name) > 0)
        stored(name) ==
            [name |-> name, stanine |-> T(sas_to_stanine(sas_of(name))),
             level |-> stored_cat4_level(sas_of(name)),
             sas_score |-> sas_of(name)]
    IN  [present |-> TRUE,
         is_fragile_learner |-> fragile_flags >= 2,
         average_stanine |-> IF notna(mean_sas) THEN sas_to_stanine(mean_sas.v) ELSE 0,
         fragile_flags |-> fragile_flags,
         domains |-> MapSeq(kept, stored)]

\* upload_cat4_data without the test for an unknown student: the row creates
\* the student it names.
upload_cat4_data_creating ==
    \/ /\ student.cat4_assessment.present
       /\ student' = student
       /\ profile' = NoProfile
       /\ UNCHANGED fcall
    \/ /\ ~student.cat4_assessment.present
       /\ \E row \in Cat4Rows, mean_sas \in MeanSasCells :
             LET a == Cat4AssessmentOf(row, mean_sas)
             IN  student' = [student EXCEPT !.exists = TRUE,
                                            !.cat4_assessment = a,
                                            !.is_fragile_learner = a.is_fragile_learner]
       /\ profile' = NoProfile
       /\ UNCHANGED fcall

\* upload_cat4_data: skips a row whose student is unknown or already has a CAT4
\* assessment; otherwise stores the assessment and sets the student's flag.
upload_cat4_data ==
    \/ /\ ~student.exists \/ student.cat4_assessment.present
       /\ student' = student
       /\ profile' = NoProfile
       /\ UNCHANGED fcall
    \/ /\ student.exists /\ ~student.cat4_assessment.present
       /\ \E row \in Cat4Rows, mean_sas \in MeanSasCells :
             LET a == Cat4AssessmentOf(row, mean_sas)
             IN  student' = [student EXCEPT !.cat4_assessment = a,
                                            !.is_fragile_learner = a.is_fragile_learner]
       /\ profile' = NoProfile
       /\ UNCHANGED fcall

\* ------------------------------------------------------------ TriangulatedAnalyticsEngine
\* An analysis is the dict the code returns: a record whose fields are the keys
\* the dict holds, so an unavailable analysis is [available |-> FALSE] alone.

\* dict.get(key, default)
Get(d, key, default) == IF key \in DOMAIN d THEN d[key] ELSE default

Unavailable == [available |-> FALSE]

\* _calculate_pass_overall_status
calculate_pass_overall_status(risk_areas, strength_areas) ==
    IF Len(risk_areas) >= 3 THEN "High Risk"
    ELSE IF Len(risk_areas) >= 1 THEN "Some Risk"
    ELSE IF Len(strength_areas) >= 3 THEN "Strong"
    ELSE "Balanced"

\* _analyze_pass_data
analyze_pass_data(pass_assessment) ==
    IF pass_assessment.factors = <<>> THEN Unavailable
    ELSE
      LET classified(factor) ==
              [name |-> factor.name, percentile |-> factor.percentile,
               level |-> pass_level(factor.percentile),
               p_number |-> pass_p_mapping(factor.name)]
          area(f) == [factor |-> f.name, percentile |-> f.percentile, level |-> f.level]
          factors == MapSeq(pass_assessment.factors, classified)
          risk_areas ==
              MapSeq(SelectSeq(factors, LAMBDA f : f.level = "at-risk"), area)
          strength_areas ==
              MapSeq(SelectSeq(factors, LAMBDA f : f.level = "strength"), area)
      IN  [available |-> TRUE,
           factors |-> factors,
           riskAreas |-> risk_areas,
           strengthAreas |-> strength_areas,
           overallStatus |-> calculate_pass_overall_status(risk_areas, strength_areas)]

\* A slip of the fragile count: strength domains counted with the weak ones.
fragile_flags_of_all(domains) ==
    Len(SelectSeq(domains, LAMBDA d : d.level # "balanced"))

\* _analyze_cat4_data, lines 170-195: fragile_flags, one per weakness domain.
fragile_flags_of(domains) ==
    Len(SelectSeq(domains, LAMBDA d : d.level = "weakness"))

\* _analyze_cat4_data
analyze_cat4_data(cat4_assessment) ==
    IF cat4_assessment.domains = <<>> THEN Unavailable
    ELSE
      LET classified(domain) ==
              LET sas == stanine_to_sas(domain.stanine)
              IN  [name |-> domain.name, stanine |-> domain.stanine, sas |-> sas,
                   level |-> cat4_level(sas)]
          area(d) == [domain |-> d.name, sas |-> d.sas, stanine |-> d.stanine,
                      level |-> d.level]
          domains == MapSeq(cat4_assessment.domains, classified)
          fragile_flags == fragile_flags_of(domains)
      IN  [available |-> TRUE,
           domains |-> domains,
           weaknessAreas |->
              MapSeq(SelectSeq(domains, LAMBDA d : d.level = "weakness"), area),
           strengthAreas |->
              MapSeq(SelectSeq(domains, LAMBDA d : d.level = "strength"), area),
           is_fragile_learner |-> fragile_flags >= 2,
           fragile_flags |-> fragile_flags]

\* _analyze_academic_data reads subject.internal_stanine, which raises
\* AttributeError on an object that has no such attribute.
AcademicRaises(academic_assessment, attrs) ==
    academic_assessment.subjects # <<>> /\ "internal_stanine" \notin attrs

\* _analyze_academic_data, on subjects whose stanine is readable.
analyze_academic_data(academic_assessment) ==
    IF academic_assessment.subjects = <<>> THEN Unavailable
    ELSE
      LET classified(subject) ==
              [name |-> subject.name, stanine |-> subject.stanine,
               marks |-> "None",
               level |-> academic_level(subject.stanine),
               comparison |-> Get(subject, "comparison", "")]
          area(x) == [subject |-> x.name, stanine |-> x.stanine, level |-> x.level]
          subjects == MapSeq(academic_assessment.subjects, classified)
      IN  [available |-> TRUE,
           subjects |-> subjects,
           weaknessAreas |->
              MapSeq(SelectSeq(subjects, LAMBDA x : x.level = "weakness"), area),
           strengthAreas |->
              MapSeq(SelectSeq(subjects, LAMBDA x : x.level = "strength"), area),
           averageStanine |->
              [num |-> SumSeq(MapSeq(subjects, LAMBDA x : x.stanine)),
               den |-> Len(subjects)]]

\* _determine_fragile_learner
determine_fragile_learner(cat4_analysis) ==
    IF ~Get(cat4_analysis, "available", FALSE) THEN FALSE
    ELSE Get(cat4_analysis, "fragile_flags", 0) >= 2

\* sorted(items, key=lambda x: x['score']): stable, ascending.
RECURSIVE SortedByScore(_)
SortedByScore(items) ==
    IF items = <<>> THEN <<>>
    ELSE LET rest == SortedByScore(SubSeq(items, 1, Len(items) - 1))
             x == items[Len(items)]
             before == SelectSeq(rest, LAMBDA y : y.score <= x.score)
             after == SelectSeq(rest, LAMBDA y : y.score > x.score)
         IN  before \o <<x>> \o after

\* sorted(items, key=lambda x: x['score'], reverse=True): stable, descending.
RECURSIVE SortedByScoreReverse(_)
SortedByScoreReverse(items) ==
    IF items = <<>> THEN <<>>
    ELSE LET rest == SortedByScoreReverse(SubSeq(items, 1, Len(items) - 1))
             x == items[Len(items)]
             before == SelectSeq(rest, LAMBDA y : y.score >= x.score)
             after == SelectSeq(rest, LAMBDA y : y.score < x.score)
         IN  before \o <<x>> \o after

\* A slip of the slice: nothing cut off.
FirstAll(items) == items

\* items[:5]
FirstFive(items) == SubSeq(items, 1, IF Len(items) < 5 THEN Len(items) ELSE 5)

\* _generate_triangulated_summary
generate_triangulated_summary(pass_analysis, cat4_analysis, academic_analysis) ==
    LET entry(domain, factor, score, type) ==
            [domain |-> domain, factor |-> factor, score |-> score, type |-> type]
        pass_strengths ==
            IF Get(pass_analysis, "available", FALSE)
            THEN MapSeq(Get(pass_analysis, "strengthAreas", <<>>),
                    LAMBDA a : entry("PASS", a.factor, a.percentile, "Attitudinal Strength"))
            ELSE <<>>
        pass_risks ==
            IF Get(pass_analysis, "available", FALSE)
            THEN MapSeq(Get(pass_analysis, "riskAreas", <<>>),
                    LAMBDA a : entry("PASS", a.factor, a.percentile, "Attitudinal Risk"))
            ELSE <<>>
        cat4_strengths ==
            IF Get(cat4_analysis, "available", FALSE)
            THEN MapSeq(Get(cat4_analysis, "strengthAreas", <<>>),
                    LAMBDA a : entry("CAT4", a.domain, a.sas, "Cognitive Strength"))
            ELSE <<>>
        cat4_weaknesses ==
            IF Get(cat4_analysis, "available", FALSE)
            THEN MapSeq(Get(cat4_analysis, "weaknessAreas", <<>>),
                    LAMBDA a : entry("CAT4", a.domain, a.sas, "Cognitive Weakness"))
            ELSE <<>>
        academic_strengths ==
            IF Get(academic_analysis, "available", FALSE)
            THEN MapSeq(Get(academic_analysis, "strengthAreas", <<>>),
                    LAMBDA a : entry("Academic", a.subject, a.stanine, "Academic Strength"))
            ELSE <<>>
        academic_weaknesses ==
            IF Get(academic_analysis, "available", FALSE)
            THEN MapSeq(Get(academic_analysis, "weaknessAreas", <<>>),
                    LAMBDA a : entry("Academic", a.subject, a.stanine, "Academic Weakness"))
            ELSE <<>>
        top_strengths == pass_strengths \o cat4_strengths \o academic_strengths
        top_weaknesses == pass_risks \o cat4_weaknesses \o academic_weaknesses
    IN  [top_strengths |-> FirstFive(SortedByScoreReverse(top_strengths)),
         top_weaknesses |-> FirstFive(SortedByScore(top_weaknesses))]

\* A slip of the branches: of two P-numbers that share an intervention only
\* the first gets a record.
PassInterventions_once(risk) ==
    LET p_number == pass_p_mapping(risk.factor)
        record(domain, intervention) ==
            [trigger |-> <<"PASS", p_number, "at risk">>, domain |-> domain,
             intervention |-> <<intervention>>, priority |-> "high"]
    IN  IF p_number = "P3"
        THEN << record("emotional", "Self-esteem/confidence building") >>
        ELSE IF p_number = "P4"
        THEN << record("behavioral", "Time management / Organization skills") >>
        ELSE IF p_number = "P5"
        THEN << record("behavioral", "Attendance and engagement mentoring") >>
        ELSE <<>>

\* _generate_interventions, lines 326-354: the records of one PASS risk area
\* (none for P1, P2, P9 and an unknown factor).
PassInterventions(risk) ==
    LET p_number == pass_p_mapping(risk.factor)
        record(domain, intervention) ==
            [trigger |-> <<"PASS", p_number, "at risk">>, domain |-> domain,
             intervention |-> <<intervention>>, priority |-> "high"]
    IN  IF p_number \in {"P3", "P7"}
        THEN << record("emotional", "Self-esteem/confidence building") >>
        ELSE IF p_number \in {"P4", "P6"}
        THEN << record("behavioral", "Time management / Organization skills") >>
        ELSE IF p_number \in {"P5", "P8"}
        THEN << record("behavioral", "Attendance and engagement mentoring") >>
        ELSE <<>>

\* s[0] + s[1] + ... for a sequence of sequences.
RECURSIVE Flatten(_)
Flatten(ss) == IF ss = <<>> THEN <<>> ELSE Head(ss) \o Flatten(Tail(ss))

\* _generate_interventions
generate_interventions(pass_analysis, cat4_analysis, academic_analysis, is_fragile_learner) ==
    LET pass_based ==
            IF Get(pass_analysis, "available", FALSE)
            THEN Flatten(MapSeq(Get(pass_analysis, "riskAreas", <<>>), PassInterventions))
            ELSE <<>>
        cat4_based ==
            IF Get(cat4_analysis, "available", FALSE)
            THEN MapSeq(SelectSeq(Get(cat4_analysis, "weaknessAreas", <<>>),
                            LAMBDA w : w.domain = "Verbal" /\ w.sas < T(90)),
                    LAMBDA w : [trigger |-> <<"CAT4 Verbal SAS < 90">>,
                                domain |-> "cognitive",
                                intervention |-> <<"Verbal reasoning / reading boosters">>,
                                priority |-> "high"])
            ELSE <<>>
        fragile ==
            IF is_fragile_learner
            THEN << [trigger |-> <<"Fragile learner = Yes">>, domain |-> "holistic",
                     intervention |-> <<"Holistic learning support">>,
                     priority |-> "critical"] >>
            ELSE <<>>
        academic_based ==
            IF Get(academic_analysis, "available", FALSE)
            THEN MapSeq(Get(academic_analysis, "weaknessAreas", <<>>),
                    LAMBDA w : [trigger |-> <<"Academic subject = Weak", w.subject>>,
                                domain |-> "academic",
                                intervention |->
                                    <<"Subject-specific booster modules", w.subject>>,
                                priority |-> "medium"])
            ELSE <<>>
    IN  pass_based \o cat4_based \o fragile \o academic_based

\* process_student_data: the result dict, or the exception it raises.
process_student_data_result(student_db, subject_attrs) ==
    LET pass_analysis ==
            IF student_db.pass_assessment.present
            THEN analyze_pass_data(student_db.pass_assessment) ELSE Unavailable
        cat4_analysis ==
            IF student_db.cat4_assessment.present
            THEN analyze_cat4_data(student_db.cat4_assessment) ELSE Unavailable
        academic_analysis ==
            IF student_db.academic_assessments # <<>>
            THEN analyze_academic_data(student_db.academic_assessments[1])
            ELSE Unavailable
        is_fragile_learner == determine_fragile_learner(cat4_analysis)
    IN  IF student_db.academic_assessments # <<>>
           /\ AcademicRaises(student_db.academic_assessments[1], subject_attrs)
        THEN [engine |-> "TriangulatedAnalyticsEngine", raised |-> "AttributeError"]
        ELSE [engine |-> "TriangulatedAnalyticsEngine", raised |-> "",
              pass_analysis |-> pass_analysis,
              cat4_analysis |-> cat4_analysis,
              academic_analysis |-> academic_analysis,
              triangulated_summary |->
                  generate_triangulated_summary(pass_analysis, cat4_analysis,
                                                academic_analysis),
              interventions |->
                  generate_interventions(pass_analysis, cat4_analysis,
                                         academic_analysis, is_fragile_learner),
              is_fragile_learner |-> is_fragile_learner]

\* ------------------------------------------------------------ StudentAnalyticsEngine

\* name.replace('_', ' '): the names the uploads store hold no underscore.
ReplaceUnderscore(name) ==
    CASE name = "Self_Regard" -> "Self Regard"
      [] name = "Attitude_Teachers" -> "Attitude Teachers"
      [] name = "General_Work_Ethic" -> "General Work Ethic"
      [] name = "Emotional_Control" -> "Emotional Control"
      [] name = "Social_Confidence" -> "Social Confidence"
      [] name = "Curriculum_Demand" -> "Curriculum Demand"
      [] name = "Verbal_Reasoning" -> "Verbal Reasoning"
      [] name = "Quantitative_Reasoning" -> "Quantitative Reasoning"
      [] name = "Nonverbal_Reasoning" -> "Nonverbal Reasoning"
      [] name = "Spatial_Reasoning" -> "Spatial Reasoning"
      [] OTHER -> name

\* pass_descriptions.get(name, '') and cat4_descriptions.get(name, ''): the keys
\* are underscore names, so a name stored by the uploads has no description.
DescriptionKeys ==
    {"Self_Regard", "Attitude_Teachers", "General_Work_Ethic", "Emotional_Control",
     "Social_Confidence", "Curriculum_Demand", "Verbal_Reasoning",
     "Quantitative_Reasoning", "Nonverbal_Reasoning", "Spatial_Reasoning"}
Description(name) == IF name \in DescriptionKeys THEN name ELSE ""

\* _format_pass_factors
format_pass_factors(pass_assessment) ==
    MapSeq(pass_assessment.factors,
        LAMBDA factor : [name |-> ReplaceUnderscore(factor.name),
                         percentile |-> factor.percentile,
                         level |-> format_pass_level(factor.percentile),
                         description |-> Description(factor.name)])

\* _identify_pass_risks
identify_pass_risks(pass_assessment) ==
    MapSeq(SelectSeq(pass_assessment.factors, LAMBDA factor : factor.percentile < T(45)),
        LAMBDA factor : [factor |-> ReplaceUnderscore(factor.name),
                         percentile |-> factor.percentile, level |-> "at-risk"])

\* _format_cat4_domains
format_cat4_domains(cat4_assessment) ==
    MapSeq(cat4_assessment.domains,
        LAMBDA domain : [name |-> ReplaceUnderscore(domain.name),
                         stanine |-> domain.stanine,
                         level |-> format_cat4_level(domain.stanine),
                         description |-> Description(domain.name)])

\* _identify_cat4_weaknesses
identify_cat4_weaknesses(cat4_assessment) ==
    MapSeq(SelectSeq(cat4_assessment.domains, LAMBDA domain : domain.stanine <= T(3)),
        LAMBDA domain : [domain |-> ReplaceUnderscore(domain.name),
                         stanine |-> domain.stanine, level |-> "weakness"])

\* _format_academic_subjects
format_academic_subjects(academic_assessments) ==
    Flatten(MapSeq(academic_assessments,
        LAMBDA assessment :
            MapSeq(assessment.subjects,
                LAMBDA subject : [name |-> subject.name, stanine |-> subject.stanine,
                                  level |-> format_academic_level(subject.stanine),
                                  percentile |-> subject.percentile])))

\* process_student
process_student_result(student_db) ==
    [engine |-> "StudentAnalyticsEngine", raised |-> "",
     is_fragile_learner |-> student_db.is_fragile_learner,
     pass_analysis |->
        IF student_db.pass_assessment.present
        THEN [available |-> TRUE,
              factors |-> format_pass_factors(student_db.pass_assessment),
              riskAreas |-> identify_pass_risks(student_db.pass_assessment),
              strengthAreas |-> <<>>]
        ELSE Unavailable,
     cat4_analysis |->
        IF student_db.cat4_assessment.present
        THEN [available |-> TRUE,
              domains |-> format_cat4_domains(student_db.cat4_assessment),
              weaknessAreas |-> identify_cat4_weaknesses(student_db.cat4_assessment),
              strengthAreas |-> <<>>,
              is_fragile_learner |-> student_db.is_fragile_learner]
        ELSE Unavailable,
     academic_analysis |->
        IF student_db.academic_assessments # <<>>
        THEN [available |-> TRUE,
              subjects |-> format_academic_subjects(student_db.academic_assessments)]
        ELSE Unavailable]

\* name.replace(' ', '_'), on the names that become a key of the tables; any
\* other name holding a space or a hyphen stays a name that is no key.
ReplaceSpace(name) ==
    CASE name = "Self Regard" -> "Self_Regard"
      [] name = "Attitude Teachers" -> "Attitude_Teachers"
      [] name = "General Work Ethic" -> "General_Work_Ethic"
      [] name = "Emotional Control" -> "Emotional_Control"
      [] name = "Social Confidence" -> "Social_Confidence"
      [] name = "Curriculum Demand" -> "Curriculum_Demand"
      [] name = "Verbal Reasoning" -> "Verbal_Reasoning"
      [] name = "Quantitative Reasoning" -> "Quantitative_Reasoning"
      [] name = "Nonverbal Reasoning" -> "Nonverbal_Reasoning"
      [] name = "Spatial Reasoning" -> "Spatial_Reasoning"
      [] OTHER -> name

\* emotional_interventions[factor]['At Risk'], empty when factor is no key.
emotional_interventions(factor) ==
    CASE factor = "Self_Regard" ->
            << [title |-> "Self-Esteem Building", priority |-> "high"],
               [title |-> "Success Portfolio", priority |-> "medium"] >>
      [] factor = "Attitude_Teachers" ->
            << [title |-> "Teacher-Student Mediation", priority |-> "high"] >>
      [] factor = "General_Work_Ethic" ->
            << [title |-> "Academic Coaching", priority |-> "high"] >>
      [] factor = "Emotional_Control" ->
            << [title |-> "Emotional Regulation Therapy", priority |-> "high"] >>
      [] OTHER -> <<>>

\* cognitive_interventions[domain]['Weakness'], empty when domain is no key or
\* the key has no 'Weakness' entry (Fragile_Learner has only 'Yes').
cognitive_interventions(domain) ==
    CASE domain = "Verbal_Reasoning" ->
            << [title |-> "Verbal Skills Development", priority |-> "high"] >>
      [] domain = "Quantitative_Reasoning" ->
            << [title |-> "Numeracy Intervention", priority |-> "high"] >>
      [] OTHER -> <<>>

\* cognitive_interventions['Fragile_Learner']['Yes']
fragile_learner_interventions ==
    << [title |-> "Comprehensive Learning Support", priority |-> "high"] >>

\* academic_interventions['Weakness']
academic_interventions ==
    << [title |-> "Targeted Tutoring", priority |-> "high"] >>

\* A slip of the test: every subject that is not a strength gets tutoring.
needs_tutoring_any(subject) == Get(subject, "level", "") # "strength"

\* generateInterventions, line 449: subject.get('level', '') == 'weakness'
needs_tutoring(subject) == Get(subject, "level", "") = "weakness"

\* StudentAnalyticsEngine.generateInterventions
generateInterventions(pass_analysis, cat4_analysis, academic_analysis, is_fragile_learner) ==
    LET pass_based ==
            IF Get(pass_analysis, "available", FALSE)
            THEN Flatten(MapSeq(Get(pass_analysis, "riskAreas", <<>>),
                    LAMBDA risk :
                        MapSeq(emotional_interventions(ReplaceSpace(risk.factor)),
                            LAMBDA intervention :
                                [domain |-> "emotional", factor |-> <<risk.factor>>,
                                 title |-> <<intervention.title>>,
                                 priority |-> intervention.priority])))
            ELSE <<>>
        cat4_based ==
            IF Get(cat4_analysis, "available", FALSE)
            THEN Flatten(MapSeq(Get(cat4_analysis, "weaknessAreas", <<>>),
                    LAMBDA weakness :
                        MapSeq(cognitive_interventions(ReplaceSpace(weakness.domain)),
                            LAMBDA intervention :
                                [domain |-> "cognitive", factor |-> <<weakness.domain>>,
                                 title |-> <<intervention.title>>,
                                 priority |-> intervention.priority])))
            ELSE <<>>
        \* the fragile-learner block is inside the CAT4 block
        fragile ==
            IF Get(cat4_analysis, "available", FALSE) /\ is_fragile_learner
            THEN MapSeq(fragile_learner_interventions,
                    LAMBDA intervention :
                        [domain |-> "holistic", factor |-> <<"Fragile Learner">>,
                         title |-> <<intervention.title>>,
                         priority |-> intervention.priority])
            ELSE <<>>
        academic_based ==
            IF Get(academic_analysis, "available", FALSE)
            THEN Flatten(MapSeq(SelectSeq(Get(academic_analysis, "subjects", <<>>),
                                          needs_tutoring),
                    LAMBDA subject :
                        MapSeq(academic_interventions,
                            LAMBDA intervention :
                                [domain |-> "academic",
                                 factor |-> <<subject.name, "Performance">>,
                                 title |-> <<subject.name, intervention.title>>,
                                 priority |-> intervention.priority])))
            ELSE <<>>
    IN  pass_based \o cat4_based \o fragile \o academic_based

\* ------------------------------------------------------------ PredictiveAnalytics
\* Scores are fractions [num, den] in lowest terms, so that the cut points are
\* compared exactly.

RECURSIVE Gcd(_, _)
Gcd(a, b) == IF b = 0 THEN a ELSE Gcd(b, a % b)

\* num/den in lowest terms (num >= 0, den > 0).
Fraction(num, den) ==
    LET g == Gcd(num, den) IN [num |-> num \div g, den |-> den \div g]

\* risk_factor_weights.get(name.lower().replace(' ', '_'), 0.5), in tenths.
risk_factor_weights(name) ==
    CASE ReplaceSpace(name) \in {"Self_Regard", "Emotional_Control"} -> 8
      [] ReplaceSpace(name) \in {"Attitude_Teachers", "Verbal_Reasoning",
                                 "Quantitative_Reasoning"} -> 7
      [] ReplaceSpace(name) = "General_Work_Ethic" -> 9
      [] ReplaceSpace(name) \in {"Curriculum_Demand", "Nonverbal_Reasoning"} -> 6
      [] OTHER -> 5

\* thresholds of PredictiveAnalytics, in hundredths.
risk_thresholds == [high_risk |-> 70, medium_risk |-> 40, borderline |-> 30]

\* early_indicators['pass_early_warnings']
pass_early_warnings ==
    [self_regard_threshold |-> 50, work_ethic_threshold |-> 55,
     emotional_control_threshold |-> 50]

\* risk_factors.sort(key=weighted_risk, reverse=True): stable, descending.
RECURSIVE SortedByWeightedRisk(_)
SortedByWeightedRisk(items) ==
    IF items = <<>> THEN <<>>
    ELSE LET rest == SortedByWeightedRisk(SubSeq(items, 1, Len(items) - 1))
             x == items[Len(items)]
             before == SelectSeq(rest, LAMBDA y : y.weighted_risk >= x.weighted_risk)
             after == SelectSeq(rest, LAMBDA y : y.weighted_risk < x.weighted_risk)
         IN  before \o <<x>> \o after

\* _calculate_current_risk_factors.  weighted_risk is in units of 1/(450 * Scale).
calculate_current_risk_factors(student_data) ==
    LET pass_analysis == student_data.pass_analysis
        cat4_analysis == student_data.cat4_analysis
        academic_analysis == student_data.academic_analysis
        stanine_risk(stanine) == IF stanine > 0 THEN T(4) - stanine ELSE 0
        pass_factors ==
            IF Get(pass_analysis, "available", FALSE)
            THEN MapSeq(Get(pass_analysis, "riskAreas", <<>>),
                    LAMBDA risk_area :
                        [domain |-> "PASS", factor |-> risk_area.factor,
                         weighted_risk |->
                            (IF T(45) - risk_area.percentile > 0
                             THEN T(45) - risk_area.percentile ELSE 0)
                            * risk_factor_weights(risk_area.factor)])
            ELSE <<>>
        cat4_factors ==
            IF Get(cat4_analysis, "available", FALSE)
            THEN MapSeq(Get(cat4_analysis, "weaknessAreas", <<>>),
                    LAMBDA weakness :
                        [domain |-> "CAT4", factor |-> weakness.domain,
                         weighted_risk |->
                            stanine_risk(Get(weakness, "stanine", 0)) * 15
                            * risk_factor_weights(weakness.domain)])
            ELSE <<>>
        fragile ==
            IF Get(cat4_analysis, "available", FALSE)
               /\ (Get(cat4_analysis, "is_fragile_learner", FALSE)
                   \/ Get(student_data, "is_fragile_learner", FALSE))
            THEN << [domain |-> "CAT4", factor |-> "Fragile Learner",
                     weighted_risk |-> 9 * T(45)] >>
            ELSE <<>>
        academic_factors ==
            IF Get(academic_analysis, "available", FALSE)
            THEN MapSeq(SelectSeq(Get(academic_analysis, "subjects", <<>>),
                                  LAMBDA subject : Get(subject, "level", "") = "weakness"),
                    LAMBDA subject :
                        [domain |-> "Academic", factor |-> subject.name,
                         weighted_risk |->
                            stanine_risk(Get(subject, "stanine", 0)) * 15 * 6])
            ELSE <<>>
        risk_factors == pass_factors \o cat4_factors \o fragile \o academic_factors
        total_score == SumSeq(MapSeq(risk_factors, LAMBDA f : f.weighted_risk))
    IN  [factors |-> SortedByWeightedRisk(risk_factors),
         score |-> IF risk_factors = <<>> THEN Fraction(0, 1)
                   ELSE Fraction(total_score, Len(risk_factors) * 450 * Scale)]

\* 'self' in name and 'regard' in name, 'work' in name and 'ethic' in name,
\* 'emotional' in name, for name = factor['name'].lower().
NameHasSelfRegard(name) ==
    name \in {"Self-regard as a Learner", "Self_Regard", "Self Regard"}
NameHasWorkEthic(name) ==
    name \in {"General Work Ethic", "General_Work_Ethic"}
NameHasEmotional(name) ==
    name \in {"Emotional_Control", "Emotional Control"}

\* _identify_early_warnings: the lower limit `percentile >= 40` of each check.
early_warning_from == T(40)

\* _identify_early_warnings.  level is in units of 1/(30 * Scale).
identify_early_warnings(student_data) ==
    LET pass_analysis == student_data.pass_analysis
        thresholds == pass_early_warnings
        within(percentile, threshold) ==
            percentile >= early_warning_from /\ percentile <= T(threshold)
        warnings(factor) ==
            (IF NameHasSelfRegard(factor.name)
                /\ within(factor.percentile, thresholds.self_regard_threshold)
             THEN << [domain |-> "PASS", indicator |-> "Self-Regard Approaching Risk",
                      level |-> 3 * (T(thresholds.self_regard_threshold)
                                     - factor.percentile),
                      percentile |-> factor.percentile, name |-> factor.name] >>
             ELSE <<>>)
            \o (IF NameHasWorkEthic(factor.name)
                   /\ within(factor.percentile, thresholds.work_ethic_threshold)
                THEN << [domain |-> "PASS", indicator |-> "Work Ethic Approaching Risk",
                         level |-> 2 * (T(thresholds.work_ethic_threshold)
                                        - factor.percentile),
                         percentile |-> factor.percentile, name |-> factor.name] >>
                ELSE <<>>)
            \o (IF NameHasEmotional(factor.name)
                   /\ within(factor.percentile, thresholds.emotional_control_threshold)
                THEN << [domain |-> "PASS",
                         indicator |-> "Emotional Control Approaching Risk",
                         level |-> 3 * (T(thresholds.emotional_control_threshold)
                                        - factor.percentile),
                         percentile |-> factor.percentile, name |-> factor.name] >>
                ELSE <<>>)
        indicators ==
            IF Get(pass_analysis, "available", FALSE)
            THEN Flatten(MapSeq(Get(pass_analysis, "factors", <<>>), warnings))
            ELSE <<>>
        total_warning_score == SumSeq(MapSeq(indicators, LAMBDA w : w.level))
    IN  [indicators |-> indicators,
         score |-> IF indicators = <<>> THEN Fraction(0, 1)
                   ELSE Fraction(total_warning_score, Len(indicators) * 30 * Scale)]

\* predict_risk, lines 1102-1104: score * 0.7 + score * 0.3
weighted_risk_score(current, early) ==
    Fraction(7 * current.num * early.den + 3 * early.num * current.den,
             10 * current.den * early.den)

\* predict_risk, lines 1107-1118: the risk level of a score.
risk_level_of(score) ==
    IF 100 * score.num >= risk_thresholds.high_risk * score.den THEN "high"
    ELSE IF 100 * score.num >= risk_thresholds.medium_risk * score.den THEN "medium"
    ELSE IF 100 * score.num >= risk_thresholds.borderline * score.den THEN "borderline"
    ELSE "low"

\* predict_risk: the risk factors, the early indicators, the score and the level
\* of the prediction (its trend analysis, confidence and recommendations are
\* computed after the level and do not enter it).
predict_risk(student_data) ==
    LET current_risk_factors == calculate_current_risk_factors(student_data)
        early_warnings == identify_early_warnings(student_data)
        overall_risk_score ==
            weighted_risk_score(current_risk_factors.score, early_warnings.score)
    IN  [risk_factors |-> current_risk_factors.factors,
         early_indicators |-> early_warnings.indicators,
         current_score |-> current_risk_factors.score,
         early_score |-> early_warnings.score,
         overall_risk_score |-> overall_risk_score,
         risk_level |-> risk_level_of(overall_risk_score)]

\* The route without the 0.4 it adds for a fragile learner.
get_student_risk_prediction_result_no_fragile(analysis_result) ==
    LET pass_risks == Len(Get(analysis_result.pass_analysis, "riskAreas", <<>>))
        cat4_weaknesses == Len(Get(analysis_result.cat4_analysis, "weaknessAreas", <<>>))
        academic_weaknesses ==
            Len(Get(analysis_result.academic_analysis, "weaknessAreas", <<>>))
        summed ==
            (IF analysis_result.pass_analysis.available
             THEN Least(pass_risks * 15, 60) ELSE 0)
            + (IF analysis_result.cat4_analysis.available
               THEN Least(cat4_weaknesses * 20, 80) ELSE 0)
            + (IF analysis_result.academic_analysis.available
               THEN Least(academic_weaknesses * 10, 30) ELSE 0)
        overall_risk_score == Least(summed, 100)
    IN  [overall_risk_score |-> Fraction(overall_risk_score, 100),
         risk_level |->
            IF overall_risk_score >= 70 THEN "high"
            ELSE IF overall_risk_score >= 40 THEN "medium"
            ELSE IF overall_risk_score >= 20 THEN "borderline"
            ELSE "low"]

\* get_student_risk_prediction, lines 490-528: the score in hundredths and the
\* level the route gives it.
get_student_risk_prediction_result(analysis_result) ==
    LET pass_risks == Len(Get(analysis_result.pass_analysis, "riskAreas", <<>>))
        cat4_weaknesses == Len(Get(analysis_result.cat4_analysis, "weaknessAreas", <<>>))
        academic_weaknesses ==
            Len(Get(analysis_result.academic_analysis, "weaknessAreas", <<>>))
        summed ==
            (IF analysis_result.pass_analysis.available
             THEN Least(pass_risks * 15, 60) ELSE 0)
            + (IF analysis_result.cat4_analysis.available
               THEN Least(cat4_weaknesses * 20, 80) ELSE 0)
            + (IF analysis_result.academic_analysis.available
               THEN Least(academic_weaknesses * 10, 30) ELSE 0)
            + (IF analysis_result.is_fragile_learner THEN 40 ELSE 0)
        overall_risk_score == Least(summed, 100)
    IN  [overall_risk_score |-> Fraction(overall_risk_score, 100),
         risk_level |->
            IF overall_risk_score >= 70 THEN "high"
            ELSE IF overall_risk_score >= 40 THEN "medium"
            ELSE IF overall_risk_score >= 20 THEN "borderline"
            ELSE "low"]

\* ------------------------------------------------------------ ProgressTracker

\* improvement_thresholds, doubled so that 0.5 is a whole number.
improvement_thresholds_doubled == [PASS |-> 10, CAT4 |-> 1, ACADEMIC |-> 1]

Abs(x) == IF x < 0 THEN 0 - x ELSE x

\* A slip of the comparison: a change equal to the threshold is not significant.
is_significant_strict(change, threshold_doubled) ==
    2 * Abs(change) > T(threshold_doubled)

\* abs(change) >= self.improvement_thresholds[...]
is_significant(change, threshold_doubled) ==
    2 * Abs(change) >= T(threshold_doubled)

\* A slip of the first test: a change equal to the threshold is only slight.
get_change_status_strict(num, den, threshold_doubled) ==
    IF 2 * num > T(threshold_doubled) * den THEN "significant improvement"
    ELSE IF num > 0 THEN "slight improvement"
    ELSE IF num = 0 THEN "no change"
    ELSE IF 2 * num > (0 - T(threshold_doubled)) * den THEN "slight decline"
    ELSE "significant decline"

\* _get_change_status, for the change num/den (den > 0).
get_change_status(num, den, threshold_doubled) ==
    IF 2 * num >= T(threshold_doubled) * den THEN "significant improvement"
    ELSE IF num > 0 THEN "slight improvement"
    ELSE IF num = 0 THEN "no change"
    ELSE IF 2 * num > (0 - T(threshold_doubled)) * den THEN "slight decline"
    ELSE "significant decline"

\* The comparison loop shared by the three _analyze_*_progress methods: for each
\* current item the first previous item of the same name; the dict keeps, for a
\* name, the entry of the last current item of that name.
compare_by_name(current_items, previous_items, field, threshold_doubled) ==
    LET matched == {i \in DOMAIN current_items :
                       \E j \in DOMAIN previous_items :
                           previous_items[j].name = current_items[i].name}
        last(name) == CHOOSE i \in matched :
                          /\ current_items[i].name = name
                          /\ \A k \in matched :
                                current_items[k].name = name => k <= i
        first(name) == CHOOSE j \in DOMAIN previous_items :
                           /\ previous_items[j].name = name
                           /\ \A k \in DOMAIN previous_items :
                                 previous_items[k].name = name => j <= k
    IN  [name \in {current_items[i].name : i \in matched} |->
            LET item == current_items[last(name)]
                prev == previous_items[first(name)]
                change == item[field] - prev[field]
            IN  [current |-> item[field],
                 previous |-> prev[field],
                 change |-> change,
                 isSignificant |-> is_significant(change, threshold_doubled),
                 direction |-> IF change > 0 THEN "improved"
                               ELSE IF change < 0 THEN "declined" ELSE "unchanged",
                 status |-> get_change_status(change, 1, threshold_doubled)]]

\* sum(changes) / len(changes) if changes else 0, and its status.
SumOver(f, S) ==
    LET RECURSIVE sum(_)
        sum(R) == IF R = {} THEN 0
                  ELSE LET x == CHOOSE y \in R : TRUE IN f[x].change + sum(R \ {x})
    IN  sum(S)

progress_result(key, analysis, extra, threshold_doubled) ==
    LET total == SumOver(analysis, DOMAIN analysis)
        count == IF DOMAIN analysis = {} THEN 1 ELSE Cardinality(DOMAIN analysis)
    IN  [available |-> TRUE, key |-> key, analysis |-> analysis,
         fragileLearnerChange |-> extra,
         averageChange |-> [num |-> total, den |-> count],
         overallStatus |-> get_change_status(total, count, threshold_doubled)]

\* A slip of the guard: compared as soon as one period has PASS data.
analyze_pass_progress_either(current_pass, previous_pass) ==
    IF ~Get(current_pass, "available", FALSE) /\ ~Get(previous_pass, "available", FALSE)
    THEN [available |-> FALSE, message |-> "PASS comparison not available."]
    ELSE progress_result("factorAnalysis",
            compare_by_name(Get(current_pass, "factors", <<>>),
                            Get(previous_pass, "factors", <<>>), "percentile",
                            improvement_thresholds_doubled.PASS),
            "none", improvement_thresholds_doubled.PASS)

\* _analyze_pass_progress
analyze_pass_progress(current_pass, previous_pass) ==
    IF ~Get(current_pass, "available", FALSE) \/ ~Get(previous_pass, "available", FALSE)
    THEN [available |-> FALSE, message |-> "PASS comparison not available."]
    ELSE progress_result("factorAnalysis",
            compare_by_name(Get(current_pass, "factors", <<>>),
                            Get(previous_pass, "factors", <<>>), "percentile",
                            improvement_thresholds_doubled.PASS),
            "none", improvement_thresholds_doubled.PASS)

\* _analyze_cat4_progress
analyze_cat4_progress(current_cat4, previous_cat4) ==
    IF ~Get(current_cat4, "available", FALSE) \/ ~Get(previous_cat4, "available", FALSE)
    THEN [available |-> FALSE, message |-> "CAT4 comparison not available."]
    ELSE LET now == Get(current_cat4, "is_fragile_learner", FALSE)
             before == Get(previous_cat4, "is_fragile_learner", FALSE)
         IN  progress_result("domainAnalysis",
                compare_by_name(Get(current_cat4, "domains", <<>>),
                                Get(previous_cat4, "domains", <<>>), "stanine",
                                improvement_thresholds_doubled.CAT4),
                IF now # before THEN IF now THEN "negative" ELSE "positive"
                ELSE "unchanged",
                improvement_thresholds_doubled.CAT4)

\* _analyze_academic_progress
analyze_academic_progress(current_academic, previous_academic) ==
    IF ~Get(current_academic, "available", FALSE)
       \/ ~Get(previous_academic, "available", FALSE)
    THEN [available |-> FALSE, message |-> "Academic comparison not available."]
    ELSE progress_result("subjectAnalysis",
            compare_by_name(Get(current_academic, "subjects", <<>>),
                            Get(previous_academic, "subjects", <<>>), "stanine",
                            improvement_thresholds_doubled.ACADEMIC),
            "none", improvement_thresholds_doubled.ACADEMIC)

\* The keys of a comparison dict in insertion order: the names of the current
\* items that were compared, each at its first occurrence.
RECURSIVE KeysInOrder(_, _)
KeysInOrder(items, keys) ==
    IF items = <<>> THEN <<>>
    ELSE IF Head(items).name \in keys
         THEN << Head(items).name >>
              \o KeysInOrder(Tail(items), keys \ {Head(items).name})
         ELSE KeysInOrder(Tail(items), keys)

\* part.lower() in whole.lower(), on the names of the descriptions tables and
\* of the subjects: the only name that holds another is Nonverbal Reasoning.
NameContains(whole, part) ==
    \/ whole = part
    \/ part = "Verbal Reasoning" /\ whole = "Nonverbal Reasoning"

\* _analyze_intervention_effectiveness: the entries of the returned dict, in
\* the order of the previous interventions (their titles are distinct).
analyze_intervention_effectiveness(current_data, previous_data) ==
    LET previous_interventions == Get(previous_data, "interventions", <<>>)
        judged(current_analysis, previous_analysis, list, field, part, thr) ==
            IF ~(Get(current_analysis, "available", FALSE)
                 /\ Get(previous_analysis, "available", FALSE))
            THEN "unknown"
            ELSE LET items == Get(current_analysis, list, <<>>)
                     prev_items == Get(previous_analysis, list, <<>>)
                     related == SelectSeq(items,
                                    LAMBDA item : NameContains(item.name, part))
                     compared == SelectSeq(related,
                                    LAMBDA item : \E j \in DOMAIN prev_items :
                                                     prev_items[j].name = item.name)
                     first(name) == CHOOSE j \in DOMAIN prev_items :
                                       /\ prev_items[j].name = name
                                       /\ \A k \in DOMAIN prev_items :
                                             prev_items[k].name = name => j <= k
                     total == SumSeq(MapSeq(compared,
                                  LAMBDA item : item[field]
                                                - prev_items[first(item.name)][field]))
                 IN  IF compared = <<>> THEN "unknown"
                     ELSE IF 2 * total >= T(thr) * Len(compared) THEN "effective"
                     ELSE IF 2 * total <= (0 - T(thr)) * Len(compared)
                          THEN "not effective"
                     ELSE "partially effective"
        effectiveness(intervention) ==
            IF intervention.domain \in {"emotional", "behavioral"}
            THEN judged(Get(current_data, "pass_analysis", Unavailable),
                        Get(previous_data, "pass_analysis", Unavailable),
                        "factors", "percentile", intervention.factor[1],
                        improvement_thresholds_doubled.PASS)
            ELSE IF intervention.domain = "cognitive"
            THEN judged(Get(current_data, "cat4_analysis", Unavailable),
                        Get(previous_data, "cat4_analysis", Unavailable),
                        "domains", "stanine", intervention.factor[1],
                        improvement_thresholds_doubled.CAT4)
            ELSE IF intervention.domain = "academic"
            THEN judged(Get(current_data, "academic_analysis", Unavailable),
                        Get(previous_data, "academic_analysis", Unavailable),
                        "subjects", "stanine", intervention.factor[1],
                        improvement_thresholds_doubled.ACADEMIC)
            ELSE "unknown"
    IN  IF previous_interventions = <<>>
        THEN [available |-> FALSE,
              message |-> "No previous interventions to evaluate."]
        ELSE [available |-> TRUE,
              interventions |->
                 MapSeq(previous_interventions,
                    LAMBDA intervention :
                        [title |-> intervention.title,
                         domain |-> intervention.domain,
                         factor |-> intervention.factor,
                         effectiveness |-> effectiveness(intervention)])]

\* The areas one domain's comparison adds in _compile_improvement_areas
\* (improving = TRUE) or _compile_concern_areas (improving = FALSE).
compared_areas(domain, comparison, current_items, improving) ==
    LET word == IF improving THEN "improvement" ELSE "decline"
        keys == KeysInOrder(current_items, DOMAIN comparison.analysis)
        entries == MapSeq(keys,
                      LAMBDA name :
                          [domain |-> domain, factor |-> name,
                           change |-> comparison.analysis[name].change,
                           significance |->
                              IF comparison.analysis[name].status
                                    = "significant " \o word THEN "significant"
                              ELSE IF comparison.analysis[name].status
                                    = "slight " \o word THEN "slight"
                              ELSE "none"])
    IN  SelectSeq(entries, LAMBDA area : area.significance # "none")

\* The entry for a change of the fragile-learner status.
fragile_area(comparison, direction) ==
    IF comparison.fragileLearnerChange = direction
    THEN << [domain |-> "CAT4", factor |-> "Fragile Learner Status", change |-> 0,
             significance |-> "significant"] >>
    ELSE <<>>

\* _compile_improvement_areas and _compile_concern_areas
compile_areas(current_data, pass_progress, cat4_progress, academic_progress, improving) ==
    (IF pass_progress.available
     THEN compared_areas("PASS", pass_progress,
                         Get(current_data.pass_analysis, "factors", <<>>), improving)
     ELSE <<>>)
    \o (IF cat4_progress.available
        THEN compared_areas("CAT4", cat4_progress,
                            Get(current_data.cat4_analysis, "domains", <<>>), improving)
             \o fragile_area(cat4_progress,
                             IF improving THEN "positive" ELSE "negative")
        ELSE <<>>)
    \o (IF academic_progress.available
        THEN compared_areas("Academic", academic_progress,
                            Get(current_data.academic_analysis, "subjects", <<>>),
                            improving)
        ELSE <<>>)

\* _generate_progress_summary: the parts the sentence is made of.
generate_progress_summary(progress) ==
    LET compared == SelectSeq(<< progress.pass_analysis, progress.cat4_analysis,
                                progress.academic_analysis >>,
                              LAMBDA analysis : analysis.available)
        RECURSIVE Total(_)
        \* the sum of the average changes, as a fraction
        Total(list) ==
            IF list = <<>> THEN [num |-> 0, den |-> 1]
            ELSE LET rest == Total(Tail(list))
                     here == Head(list).averageChange
                 IN  [num |-> here.num * rest.den + rest.num * here.den,
                      den |-> here.den * rest.den]
        total == Total(compared)
        people == Len(compared)
        effects == IF progress.interventionEffectiveness.available
                   THEN progress.interventionEffectiveness.interventions ELSE <<>>
        count(word) == Len(SelectSeq(effects,
                               LAMBDA entry : entry.effectiveness = word))
    IN  IF compared = <<>>
        THEN [text |-> "No comparable assessment data available."]
        ELSE [text |-> "Progress summary",
              overall |->
                 IF 2 * total.num > Scale * total.den * people THEN "improvement"
                 ELSE IF 2 * total.num < (0 - Scale) * total.den * people
                      THEN "decline"
                 ELSE "mixed",
              improvements |->
                 MapSeq(SubSeq(progress.improvementAreas, 1,
                               Least(2, Len(progress.improvementAreas))),
                        LAMBDA area : area.factor),
              concerns |->
                 MapSeq(SubSeq(progress.concernAreas, 1,
                               Least(2, Len(progress.concernAreas))),
                        LAMBDA area : area.factor),
              effective |-> count("effective"),
              partial |-> count("partially effective"),
              ineffective |-> count("not effective")]

\* track_progress; previous_data is a dict, empty when there is no baseline.
track_progress(current_data, previous_data) ==
    IF DOMAIN previous_data = {}
    THEN [hasBaseline |-> FALSE,
          message |-> "No previous assessment data available for comparison."]
    ELSE LET pass_progress ==
                 analyze_pass_progress(Get(current_data, "pass_analysis", << >>),
                                       Get(previous_data, "pass_analysis", << >>))
             cat4_progress ==
                 analyze_cat4_progress(Get(current_data, "cat4_analysis", << >>),
                                       Get(previous_data, "cat4_analysis", << >>))
             academic_progress ==
                 analyze_academic_progress(
                     Get(current_data, "academic_analysis", << >>),
                     Get(previous_data, "academic_analysis", << >>))
             compiled ==
                 [hasBaseline |-> TRUE,
                  pass_analysis |-> pass_progress,
                  cat4_analysis |-> cat4_progress,
                  academic_analysis |-> academic_progress,
                  interventionEffectiveness |->
                     analyze_intervention_effectiveness(current_data, previous_data),
                  improvementAreas |->
                     compile_areas(current_data, pass_progress, cat4_progress,
                                   academic_progress, TRUE),
                  concernAreas |->
                     compile_areas(current_data, pass_progress, cat4_progress,
                                   academic_progress, FALSE)]
         IN  [hasBaseline |-> TRUE,
              pass_analysis |-> pass_progress,
              cat4_analysis |-> cat4_progress,
              academic_analysis |-> academic_progress,
              interventionEffectiveness |-> compiled.interventionEffectiveness,
              improvementAreas |-> compiled.improvementAreas,
              concernAreas |-> compiled.concernAreas,
              summary |-> generate_progress_summary(compiled)]

\* ------------------------------------------------------------ the system

\* GET /students/{student_id}: the triangulated engine on the stored student.
process_student_data ==
    /\ student.exists
    /\ profile' = process_student_data_result(student, AcademicSubjectAttrs)
    /\ UNCHANGED <<student, fcall>>

\* StudentAnalyticsEngine.process_student on the stored student.
process_student ==
    /\ student.exists
    /\ profile' = process_student_result(student)
    /\ UNCHANGED <<student, fcall>>

Init ==
    /\ student = NoStudent
    /\ profile = NoProfile
    /\ fcall = NoCall

Next ==
    \/ upload_asset_data
    \/ upload_pass_data
    \/ upload_cat4_data
    \/ process_student_data
    \/ process_student

Spec == Init /\ [][Next]_vars

\* ------------------------------------------------------------ the migrations
\* The step of each migration script that recalculates the fragile-learner
\* status, run once on the database the uploads have filled.  fcall keeps
\* which step ran and whether the student had a CAT4 assessment then.

\* migrate_to_corrected_analytics.recalculate_fragile_learner_status: a student
\* whose assessment has no domains is passed over; a domain without a stored SAS
\* gets the one converted from its stanine; fragile_flags is always written,
\* the two flags only when the student's flag changes.
recalculate_fragile_learner_status ==
    /\ fcall.op = "none"
    /\ student.exists
    /\ LET a == student.cat4_assessment
           domains == MapSeq(a.domains, LAMBDA d :
                         IF d.sas_score = 0
                         THEN [d EXCEPT !.sas_score = stanine_to_sas(d.stanine)]
                         ELSE d)
           fragile_flags ==
               Cardinality({i \in DOMAIN domains : domains[i].sas_score < T(90)})
           is_fragile == fragile_flags >= 2
       IN  student' =
               IF a.present /\ a.domains # <<>>
               THEN IF student.is_fragile_learner # is_fragile
                    THEN [student EXCEPT
                             !.is_fragile_learner = is_fragile,
                             !.cat4_assessment =
                                 [a EXCEPT !.domains = domains,
                                           !.fragile_flags = fragile_flags,
                                           !.is_fragile_learner = is_fragile]]
                    ELSE [student EXCEPT
                             !.cat4_assessment =
                                 [a EXCEPT !.domains = domains,
                                           !.fragile_flags = fragile_flags]]
               ELSE student
    /\ fcall' = [op |-> "recalculate_fragile_learner_status",
                 with_cat4 |-> student.cat4_assessment.present]
    /\ UNCHANGED profile

\* standalone_migration.run_migration, step 5: counts the domains whose stanine
\* converts to a SAS below 90 and writes the student's flag, the assessment's
\* flag and fragile_flags only when the student's flag changes.
run_migration_step5 ==
    /\ fcall.op = "none"
    /\ student.exists
    /\ LET a == student.cat4_assessment
           fragile_flags ==
               Cardinality({i \in DOMAIN a.domains :
                               stanine_to_sas(a.domains[i].stanine) < T(90)})
           is_fragile == fragile_flags >= 2
       IN  student' =
               IF a.present /\ student.is_fragile_learner # is_fragile
               THEN [student EXCEPT
                        !.is_fragile_learner = is_fragile,
                        !.cat4_assessment =
                            [a EXCEPT !.fragile_flags = fragile_flags,
                                      !.is_fragile_learner = is_fragile]]
               ELSE student
    /\ fcall' = [op |-> "run_migration",
                 with_cat4 |-> student.cat4_assessment.present]
    /\ UNCHANGED profile

\* fixed_migration.run_fixed_migration, step 5: the same count from the
\* stanines, written only when the student's flag changes.
run_fixed_migration_step5 ==
    /\ fcall.op = "none"
    /\ student.exists
    /\ LET a == student.cat4_assessment
           fragile_flags ==
               Cardinality({i \in DOMAIN a.domains :
                               stanine_to_sas(a.domains[i].stanine) < T(90)})
           is_fragile == fragile_flags >= 2
       IN  student' =
               IF a.present /\ student.is_fragile_learner # is_fragile
               THEN [student EXCEPT
                        !.is_fragile_learner = is_fragile,
                        !.cat4_assessment =
                            [a EXCEPT !.fragile_flags = fragile_flags,
                                      !.is_fragile_learner = is_fragile]]
               ELSE student
    /\ fcall' = [op |-> "run_fixed_migration",
                 with_cat4 |-> student.cat4_assessment.present]
    /\ UNCHANGED profile

\* simple_classification_fix.fix_classifications, step 4: counts the domains
\* with sas_score < 90 (every stored domain has a sas_score, so the stanine arm
\* of the query selects none) and writes only when the student's flag changes.
fix_classifications_step4 ==
    /\ fcall.op = "none"
    /\ student.exists
    /\ LET a == student.cat4_assessment
           weakness_count ==
               Cardinality({i \in DOMAIN a.domains : a.domains[i].sas_score < T(90)})
           is_fragile == weakness_count >= 2
       IN  student' =
               IF a.present /\ student.is_fragile_learner # is_fragile
               THEN [student EXCEPT
                        !.is_fragile_learner = is_fragile,
                        !.cat4_assessment =
                            [a EXCEPT !.fragile_flags = weakness_count,
                                      !.is_fragile_learner = is_fragile]]
               ELSE student
    /\ fcall' = [op |-> "fix_classifications",
                 with_cat4 |-> student.cat4_assessment.present]
    /\ UNCHANGED profile

NextMigration ==
    \/ upload_asset_data
    \/ upload_pass_data
    \/ upload_cat4_data
    \/ recalculate_fragile_learner_status
    \/ run_migration_step5
    \/ run_fixed_migration_step5
    \/ fix_classifications_step4

SpecMigration == Init /\ [][NextMigration]_vars

\* ------------------------------------------------------------ calls of the pure functions
\* Each action is one call of a converter or of a level chain on an argument of
\* the bounded ranges; fcall holds the call and what it returned.

Called(op, arg, num, level) == [op |-> op, arg |-> arg, num |-> num, level |-> level]

call_stanine_to_sas ==
    \E n \in StanineTicks :
        /\ fcall' = Called("stanine_to_sas", n, stanine_to_sas(n), "none")
        /\ UNCHANGED <<student, profile>>

call_stanine_to_sas_simple ==
    \E n \in StanineTicks :
        /\ fcall' = Called("stanine_to_sas_simple", n, stanine_to_sas_simple(n), "none")
        /\ UNCHANGED <<student, profile>>

call_sas_to_stanine ==
    \E m \in SasTicks :
        /\ fcall' = Called("sas_to_stanine", m, sas_to_stanine(m), "none")
        /\ UNCHANGED <<student, profile>>

\* sas_to_stanine on what stanine_to_sas just returned.
call_round_trip ==
    /\ fcall.op = "stanine_to_sas"
    /\ fcall' = Called("round_trip", fcall.arg, sas_to_stanine(fcall.num), "none")
    /\ UNCHANGED <<student, profile>>

call_pass_level ==
    \E p \in PercentileTicks :
        /\ fcall' = Called("_analyze_pass_data", p, 0, pass_level(p))
        /\ UNCHANGED <<student, profile>>

call_format_pass_level ==
    \E p \in PercentileTicks :
        /\ fcall' = Called("_format_pass_factors", p, 0, format_pass_level(p))
        /\ UNCHANGED <<student, profile>>

call_stored_pass_level ==
    \E p \in PercentileTicks :
        /\ fcall' = Called("upload_pass_data", p, 0, stored_pass_level(p))
        /\ UNCHANGED <<student, profile>>

\* _analyze_cat4_data on one domain: the stanine converted, the SAS classified.
call_cat4_level ==
    \E n \in StanineTicks :
        /\ fcall' = Called("_analyze_cat4_data", n, stanine_to_sas(n), cat4_level(stanine_to_sas(n)))
        /\ UNCHANGED <<student, profile>>

call_format_cat4_level ==
    \E n \in StanineTicks :
        /\ fcall' = Called("_format_cat4_domains", n, 0, format_cat4_level(n))
        /\ UNCHANGED <<student, profile>>

call_stored_cat4_level ==
    \E m \in SasTicks :
        /\ fcall' = Called("upload_cat4_data", m, m, stored_cat4_level(m))
        /\ UNCHANGED <<student, profile>>

call_academic_level ==
    \E n \in StanineTicks :
        /\ fcall' = Called("_analyze_academic_data", n, 0, academic_level(n))
        /\ UNCHANGED <<student, profile>>

call_format_academic_level ==
    \E n \in StanineTicks :
        /\ fcall' = Called("_format_academic_subjects", n, 0, format_academic_level(n))
        /\ UNCHANGED <<student, profile>>

call_stored_academic_level ==
    \E n \in StanineTicks :
        /\ fcall' = Called("upload_asset_data", n, 0, stored_academic_level(n))
        /\ UNCHANGED <<student, profile>>

NextFn ==
    \/ call_stanine_to_sas
    \/ call_stanine_to_sas_simple
    \/ call_sas_to_stanine
    \/ call_round_trip
    \/ call_pass_level
    \/ call_format_pass_level
    \/ call_stored_pass_level
    \/ call_cat4_level
    \/ call_format_cat4_level
    \/ call_stored_cat4_level
    \/ call_academic_level
    \/ call_format_academic_level
    \/ call_stored_academic_level

SpecFn == Init /\ [][NextFn]_vars

\* ------------------------------------------------------------ an edited CAT4 assessment
\* The triangulated engine on a student whose CAT4 assessment gains and loses
\* domains, one at a time.

\* A CAT4 assessment holds at most MaxDomains domains.
MaxDomains == 3

\* The stanines of the domains (3.5 converts to SAS 92, 5.5 to 107.5).
DomainStanines == {T(2), T(3), T(3) + 1, T(5), T(5) + 1, T(7)}

DomainNameSet == {Cat4DomainNames[i] : i \in DOMAIN Cat4DomainNames}

WithDomains(domains) ==
    [NoStudent EXCEPT !.exists = TRUE,
                      !.cat4_assessment = [NoCat4 EXCEPT !.present = TRUE,
                                                         !.domains = domains]]

RemoveAt(seq, i) == SubSeq(seq, 1, i - 1) \o SubSeq(seq, i + 1, Len(seq))

InitFragile ==
    /\ student = WithDomains(<<>>)
    /\ profile = process_student_data_result(student, AcademicSubjectAttrs)
    /\ fcall = NoCall

add_cat4_domain ==
    /\ Len(student.cat4_assessment.domains) < MaxDomains
    /\ \E name \in DomainNameSet, stanine \in DomainStanines :
          /\ \A i \in DOMAIN student.cat4_assessment.domains :
                student.cat4_assessment.domains[i].name # name
          /\ student' = WithDomains(Append(student.cat4_assessment.domains,
                                           [name |-> name, stanine |-> stanine]))
    /\ profile' = process_student_data_result(student', AcademicSubjectAttrs)
    /\ UNCHANGED fcall

remove_cat4_domain ==
    /\ \E i \in DOMAIN student.cat4_assessment.domains :
          student' = WithDomains(RemoveAt(student.cat4_assessment.domains, i))
    /\ profile' = process_student_data_result(student', AcademicSubjectAttrs)
    /\ UNCHANGED fcall

NextFragile == add_cat4_domain \/ remove_cat4_domain

SpecFragile == InitFragile /\ [][NextFragile]_vars

\* ------------------------------------------------------------ the engine on built students
\* TriangulatedAnalyticsEngine.process_student_data on student objects whose
\* subjects carry the attribute the engine reads (internal_stanine), rebuilt
\* after every factor, domain or subject the student gains.

MaxFactors == 3

\* The attributes of a subject object the engine can analyse.
EngineSubjectAttrs == {"name", "internal_stanine"}

FactorPercentiles == {T(20), T(30), T(70)}
EngineDomainStanines == {T(2), T(8)}
EngineSubjectStanines == {T(3), T(8)}

EngineStudent == [NoStudent EXCEPT !.exists = TRUE]

InitEngine ==
    /\ student = EngineStudent
    /\ profile = process_student_data_result(student, EngineSubjectAttrs)
    /\ fcall = NoCall

add_pass_factor ==
    LET factors == student.pass_assessment.factors
    IN  /\ Len(factors) < Least(MaxFactors, Len(PassFactorNames))
        /\ \E percentile \in FactorPercentiles :
              student' = [student EXCEPT !.pass_assessment =
                  [NoPass EXCEPT !.present = TRUE,
                                 !.factors = Append(factors,
                                     [name |-> PassFactorNames[Len(factors) + 1],
                                      percentile |-> percentile])]]
        /\ profile' = process_student_data_result(student', EngineSubjectAttrs)
        /\ UNCHANGED fcall

add_domain ==
    LET domains == student.cat4_assessment.domains
    IN  /\ Len(domains) < Least(MaxFactors, Len(Cat4DomainNames))
        /\ \E stanine \in EngineDomainStanines :
              student' = [student EXCEPT !.cat4_assessment =
                  [NoCat4 EXCEPT !.present = TRUE,
                                 !.domains = Append(domains,
                                     [name |-> Cat4DomainNames[Len(domains) + 1],
                                      stanine |-> stanine])]]
        /\ profile' = process_student_data_result(student', EngineSubjectAttrs)
        /\ UNCHANGED fcall

add_subject ==
    LET subjects == IF student.academic_assessments = <<>> THEN <<>>
                    ELSE student.academic_assessments[1].subjects
    IN  /\ Len(subjects) < Least(MaxFactors, Len(SubjectNames))
        /\ \E stanine \in EngineSubjectStanines :
              student' = [student EXCEPT !.academic_assessments =
                  << [subjects |-> Append(subjects,
                                     [name |-> SubjectNames[Len(subjects) + 1],
                                      stanine |-> stanine])] >>]
        /\ profile' = process_student_data_result(student', EngineSubjectAttrs)
        /\ UNCHANGED fcall

NextEngine == add_pass_factor \/ add_domain \/ add_subject

SpecEngine == InitEngine /\ [][NextEngine]_vars

\* ------------------------------------------------------------ calls of the intervention mappers
\* Each mapper is called on the analyses its own engine makes of a student, in
\* the engine's vocabulary of names, with either value of the fragile flag.
\* A run is one call: fcall holds its arguments and the list it returned.

MaxMapped == 2

Absent == 0 - 1

\* Names of the PASS factors and CAT4 domains in the vocabulary of
\* StudentAnalyticsEngine (the keys of its description tables).
AnalyticsPassNames ==
    << "Self_Regard", "Social_Confidence", "General_Work_Ethic", "Emotional_Control" >>
AnalyticsCat4Names ==
    << "Verbal_Reasoning", "Nonverbal_Reasoning", "Quantitative_Reasoning",
       "Spatial_Reasoning" >>

\* Names of the PASS factors in the vocabulary of TriangulatedAnalyticsEngine
\* (keys of pass_p_mapping: P3, P1, P6, P8).
TriangulatedPassNames ==
    << "Self-regard as a Learner", "Perceived Learning Capability",
       "General Work Ethic", "Attitudes to Attendance" >>

MappedPercentiles == {Absent, T(30), T(70)}
MappedDomainStanines == {Absent, T(2), T(8)}
MappedSubjectStanines == {Absent, T(3), T(5), T(8)}

\* The rows of one assessment: the names that have a value, in their order.
RowsOf(names, values, field) ==
    LET all == [i \in DOMAIN values |->
                   IF field = "percentile"
                   THEN [name |-> names[i], percentile |-> values[i]]
                   ELSE [name |-> names[i], stanine |-> values[i], percentile |-> 0]]
    IN  SelectSeq(all, LAMBDA row : row[field] # Absent)

\* A student with these PASS factors, CAT4 domains and subjects; an assessment
\* without a row is no assessment.
StudentWith(factors, domains, subjects) ==
    [EngineStudent EXCEPT
        !.pass_assessment =
            IF factors = <<>> THEN NoPass
            ELSE [NoPass EXCEPT !.present = TRUE, !.factors = factors],
        !.cat4_assessment =
            IF domains = <<>> THEN NoCat4
            ELSE [NoCat4 EXCEPT !.present = TRUE, !.domains = domains],
        !.academic_assessments =
            IF subjects = <<>> THEN <<>> ELSE << [subjects |-> subjects] >>]

MappedCount == 1..Least(MaxMapped, Len(AnalyticsPassNames))

MappedStudents(pass_names, cat4_names) ==
    {StudentWith(RowsOf(pass_names, pv, "percentile"),
                 RowsOf(cat4_names, dv, "stanine"),
                 RowsOf(SubjectNames, sv, "stanine")) :
        pv \in [MappedCount -> MappedPercentiles],
        dv \in [MappedCount -> MappedDomainStanines],
        sv \in [DOMAIN SubjectNames -> MappedSubjectStanines]}

InitMapper ==
    /\ student = NoStudent
    /\ profile = NoProfile
    /\ fcall = NoCall

call_generateInterventions ==
    /\ fcall.op = "none"
    /\ \E student_db \in MappedStudents(AnalyticsPassNames, AnalyticsCat4Names),
         is_fragile_learner \in BOOLEAN :
        LET analysed == process_student_result(student_db)
        IN  /\ fcall' = [op |-> "generateInterventions",
                         pass_analysis |-> analysed.pass_analysis,
                         cat4_analysis |-> analysed.cat4_analysis,
                         academic_analysis |-> analysed.academic_analysis,
                         is_fragile_learner |-> is_fragile_learner,
                         interventions |->
                            generateInterventions(analysed.pass_analysis,
                                analysed.cat4_analysis, analysed.academic_analysis,
                                is_fragile_learner)]
            /\ UNCHANGED <<student, profile>>

call_generate_interventions ==
    /\ fcall.op = "none"
    /\ \E student_db \in MappedStudents(TriangulatedPassNames, Cat4DomainNames),
         is_fragile_learner \in BOOLEAN :
        LET analysed == process_student_data_result(student_db, EngineSubjectAttrs)
        IN  /\ fcall' = [op |-> "_generate_interventions",
                         pass_analysis |-> analysed.pass_analysis,
                         cat4_analysis |-> analysed.cat4_analysis,
                         academic_analysis |-> analysed.academic_analysis,
                         is_fragile_learner |-> is_fragile_learner,
                         interventions |->
                            generate_interventions(analysed.pass_analysis,
                                analysed.cat4_analysis, analysed.academic_analysis,
                                is_fragile_learner)]
            /\ UNCHANGED <<student, profile>>

NextMapper == call_generateInterventions \/ call_generate_interventions

SpecMapper == InitMapper /\ [][NextMapper]_vars

\* _generate_interventions on the students whose PASS factors share their
\* interventions in pairs (P3 and P7, P4 and P6).
PairedPassNames ==
    << "Self-regard as a Learner", "Preparedness for Learning",
       "Attitudes to Teachers", "General Work Ethic" >>

PairedStudents ==
    {StudentWith(RowsOf(PairedPassNames, pv, "percentile"),
                 RowsOf(Cat4DomainNames, dv, "stanine"),
                 RowsOf(SubjectNames, sv, "stanine")) :
        pv \in [DOMAIN PairedPassNames -> {Absent, T(30)}],
        dv \in [MappedCount -> MappedDomainStanines],
        sv \in [{1} -> MappedSubjectStanines]}

call_generate_interventions_paired ==
    /\ fcall.op = "none"
    /\ \E student_db \in PairedStudents, is_fragile_learner \in BOOLEAN :
        LET analysed == process_student_data_result(student_db, EngineSubjectAttrs)
        IN  /\ fcall' = [op |-> "_generate_interventions",
                         pass_analysis |-> analysed.pass_analysis,
                         cat4_analysis |-> analysed.cat4_analysis,
                         academic_analysis |-> analysed.academic_analysis,
                         is_fragile_learner |-> is_fragile_learner,
                         interventions |->
                            generate_interventions(analysed.pass_analysis,
                                analysed.cat4_analysis, analysed.academic_analysis,
                                is_fragile_learner)]
            /\ UNCHANGED <<student, profile>>

NextPaired == call_generate_interventions_paired \/ call_generateInterventions

SpecPaired == InitMapper /\ [][NextPaired]_vars

\* ------------------------------------------------------------ calls of the risk predictions
\* predict_risk and the risk-prediction route, each called on the profile the
\* triangulated engine makes of a student.  A run is one call.

RiskPassNames ==
    << "Self-regard as a Learner", "General Work Ethic",
       "Perceived Learning Capability", "Attitudes to Attendance" >>

RiskPercentiles == {Absent, T(30), T(42), T(47), T(70)}
RiskSubjectStanines == {Absent, T(3)}

RiskStudents ==
    {StudentWith(RowsOf(RiskPassNames, pv, "percentile"),
                 RowsOf(Cat4DomainNames, dv, "stanine"),
                 RowsOf(SubjectNames, sv, "stanine")) :
        pv \in [MappedCount -> RiskPercentiles],
        dv \in [MappedCount -> MappedDomainStanines],
        sv \in [DOMAIN SubjectNames -> RiskSubjectStanines]}

call_predict_risk ==
    /\ fcall.op = "none"
    /\ \E student_db \in RiskStudents :
        LET student_data == process_student_data_result(student_db, EngineSubjectAttrs)
            prediction == predict_risk(student_data)
        IN  /\ fcall' = [op |-> "predict_risk",
                         pass_analysis |-> student_data.pass_analysis,
                         risk_factors |-> prediction.risk_factors,
                         early_indicators |-> prediction.early_indicators,
                         current_score |-> prediction.current_score,
                         early_score |-> prediction.early_score,
                         overall_risk_score |-> prediction.overall_risk_score,
                         risk_level |-> prediction.risk_level]
            /\ UNCHANGED <<student, profile>>

call_get_student_risk_prediction ==
    /\ fcall.op = "none"
    /\ \E student_db \in RiskStudents :
        LET analysis_result ==
                process_student_data_result(student_db, EngineSubjectAttrs)
            risk_prediction == get_student_risk_prediction_result(analysis_result)
        IN  /\ fcall' = [op |-> "get_student_risk_prediction",
                         pass_analysis |-> analysis_result.pass_analysis,
                         cat4_analysis |-> analysis_result.cat4_analysis,
                         academic_analysis |-> analysis_result.academic_analysis,
                         is_fragile_learner |-> analysis_result.is_fragile_learner,
                         overall_risk_score |-> risk_prediction.overall_risk_score,
                         risk_level |-> risk_prediction.risk_level]
            /\ UNCHANGED <<student, profile>>

NextRisk == call_predict_risk \/ call_get_student_risk_prediction

SpecRisk == InitMapper /\ [][NextRisk]_vars

\* ------------------------------------------------------------ calls of the progress comparator
\* Each _analyze_*_progress method is called on the analyses the triangulated
\* engine makes of the student in two periods.  A run is one call.

ProgressPercentiles == {Absent, T(30), T(33), T(35), T(70)}
ProgressDomainStanines == {Absent, T(4), T(4) + 1, T(5)}
ProgressSubjectStanines == {Absent, T(3), T(3) + 1, T(4)}

ProgressPassAnalyses ==
    {analyze_pass_data([NoPass EXCEPT !.present = TRUE,
                                     !.factors = RowsOf(TriangulatedPassNames, pv,
                                                        "percentile")]) :
        pv \in [MappedCount -> ProgressPercentiles]}

ProgressCat4Analyses ==
    {analyze_cat4_data([NoCat4 EXCEPT !.present = TRUE,
                                     !.domains = RowsOf(Cat4DomainNames, dv, "stanine")]) :
        dv \in [MappedCount -> ProgressDomainStanines]}

ProgressAcademicAnalyses ==
    {analyze_academic_data([subjects |-> RowsOf(SubjectNames, sv, "stanine")]) :
        sv \in [MappedCount -> ProgressSubjectStanines]}

call_analyze_pass_progress ==
    /\ fcall.op = "none"
    /\ \E current_pass \in ProgressPassAnalyses, previous_pass \in ProgressPassAnalyses :
          fcall' = [op |-> "_analyze_pass_progress",
                    current |-> current_pass, previous |-> previous_pass,
                    progress |-> analyze_pass_progress(current_pass, previous_pass)]
    /\ UNCHANGED <<student, profile>>

call_analyze_cat4_progress ==
    /\ fcall.op = "none"
    /\ \E current_cat4 \in ProgressCat4Analyses, previous_cat4 \in ProgressCat4Analyses :
          fcall' = [op |-> "_analyze_cat4_progress",
                    current |-> current_cat4, previous |-> previous_cat4,
                    progress |-> analyze_cat4_progress(current_cat4, previous_cat4)]
    /\ UNCHANGED <<student, profile>>

call_analyze_academic_progress ==
    /\ fcall.op = "none"
    /\ \E current_academic \in ProgressAcademicAnalyses,
          previous_academic \in ProgressAcademicAnalyses :
          fcall' = [op |-> "_analyze_academic_progress",
                    current |-> current_academic, previous |-> previous_academic,
                    progress |-> analyze_academic_progress(current_academic,
                                                           previous_academic)]
    /\ UNCHANGED <<student, profile>>

NextProgress ==
    \/ call_analyze_pass_progress
    \/ call_analyze_cat4_progress
    \/ call_analyze_academic_progress

SpecProgress == InitMapper /\ [][NextProgress]_vars

\* ------------------------------------------------------------ calls of the progress tracker
\* track_progress is called on the profiles StudentAnalyticsEngine makes of a
\* student in two periods, the previous one with the interventions generated
\* for it, or with no previous data; predict_risk is called on one profile.
\* A run is one call.

TrackPassNames == << "Self_Regard", "General_Work_Ethic" >>
TrackCat4Names == << "Verbal_Reasoning" >>
TrackSubjectNames == << "English" >>

TrackPercentiles == {Absent, T(30), T(33), T(35)}
TrackDomainStanines == {Absent, T(3), T(3) + 1}
TrackSubjectStanines == {Absent, T(3), T(3) + 1}

TrackStudents ==
    {[StudentWith(RowsOf(TrackPassNames, pv, "percentile"),
                  RowsOf(TrackCat4Names, dv, "stanine"),
                  RowsOf(TrackSubjectNames, sv, "stanine"))
         EXCEPT !.is_fragile_learner = fragile] :
        pv \in {f \in [DOMAIN TrackPassNames -> TrackPercentiles] :
                   f[2] \in {Absent, T(30)}},
        dv \in [DOMAIN TrackCat4Names -> TrackDomainStanines],
        sv \in [DOMAIN TrackSubjectNames -> TrackSubjectStanines],
        fragile \in BOOLEAN}

\* The profile of a student with the interventions generated from it.
WithInterventions(student_data) ==
    [key \in DOMAIN student_data \cup {"interventions"} |->
        IF key = "interventions"
        THEN generateInterventions(student_data.pass_analysis,
                 student_data.cat4_analysis, student_data.academic_analysis,
                 student_data.is_fragile_learner)
        ELSE student_data[key]]

call_track_progress ==
    /\ fcall.op = "none"
    /\ \E current_db \in TrackStudents, previous_db \in TrackStudents,
         has_previous \in BOOLEAN :
        LET current_data == process_student_result(current_db)
            previous_data ==
                IF has_previous
                THEN WithInterventions(process_student_result(previous_db))
                ELSE << >>
        IN  /\ ~has_previous => previous_db = current_db
            /\ fcall' = [op |-> "track_progress",
                         current_data |-> current_data,
                         previous_data |-> previous_data,
                         progress |-> track_progress(current_data, previous_data)]
    /\ UNCHANGED <<student, profile>>

call_predict_risk_profile ==
    /\ fcall.op = "none"
    /\ \E student_db \in TrackStudents :
        LET student_data == process_student_result(student_db)
        IN  fcall' = [op |-> "predict_risk",
                      current_data |-> student_data,
                      risk_factors |-> predict_risk(student_data).risk_factors]
    /\ UNCHANGED <<student, profile>>

NextTrack == call_track_progress \/ call_predict_risk_profile

SpecTrack == InitMapper /\ [][NextTrack]_vars

\* ------------------------------------------------------------ the engine objects
\* The engines are constructed once and their public methods called in any
\* order.  Here fcall holds the fields of the engine objects next to the last
\* call and what it returned.

EmotionalKeys ==
    {"Self_Regard", "Attitude_Teachers", "General_Work_Ethic", "Emotional_Control"}
CognitiveKeys == {"Verbal_Reasoning", "Quantitative_Reasoning"}

\* The fields set by the four constructors.
ConstructedEngines ==
    [emotional_interventions |->
        [factor \in EmotionalKeys |-> emotional_interventions(factor)],
     cognitive_interventions |->
        [domain \in CognitiveKeys |-> cognitive_interventions(domain)],
     fragile_learner_interventions |-> fragile_learner_interventions,
     academic_interventions |-> academic_interventions,
     descriptions |-> DescriptionKeys,
     pass_model |-> "None",
     academic_model |-> "None",
     pass_thresholds |-> pass_thresholds,
     cat4_thresholds |-> cat4_thresholds,
     academic_thresholds |-> academic_thresholds,
     pass_p_mapping |-> [name \in {PassFactorNames[i] : i \in DOMAIN PassFactorNames}
                            |-> pass_p_mapping(name)],
     improvement_thresholds_doubled |-> improvement_thresholds_doubled,
     risk_thresholds |-> risk_thresholds]

\* train_models: both models are replaced by classifiers fitted to random data.
train_models(engines) ==
    [engines EXCEPT !.pass_model = "RandomForestClassifier",
                    !.academic_model = "RandomForestClassifier"]

\* _analyze_student_data: the fixed result of the stub.
analyze_student_data ==
    [students |-> << [pass_analysis |-> Unavailable, cat4_analysis |-> Unavailable,
                      academic_analysis |-> Unavailable,
                      is_fragile_learner |-> FALSE, interventions |-> << >>] >>]

SharedPercentiles == {Absent, T(30)}
SharedDomainStanines == {Absent, T(3)}

\* The students the methods are called on.
SharedStudents(pass_names, cat4_names) ==
    {StudentWith(RowsOf(pass_names, pv, "percentile"),
                 RowsOf(cat4_names, dv, "stanine"), << >>) :
        pv \in [DOMAIN TrackPassNames -> SharedPercentiles],
        dv \in [DOMAIN TrackCat4Names -> SharedDomainStanines]}

InitEngines ==
    /\ student = NoStudent
    /\ profile = NoProfile
    /\ fcall = [op |-> "__init__", engines |-> ConstructedEngines, returned |-> << >>]

engine_process_student_data ==
    /\ \E student_db \in SharedStudents(TriangulatedPassNames, Cat4DomainNames) :
          fcall' = [op |-> "process_student_data", engines |-> fcall.engines,
                    returned |->
                       process_student_data_result(student_db, EngineSubjectAttrs)]
    /\ UNCHANGED <<student, profile>>

engine_process_student ==
    /\ \E student_db \in SharedStudents(TrackPassNames, TrackCat4Names) :
          fcall' = [op |-> "process_student", engines |-> fcall.engines,
                    returned |-> process_student_result(student_db)]
    /\ UNCHANGED <<student, profile>>

\* process_student_files: the models are trained before the files are read; a
\* file that cannot be read makes the method return the error.
engine_process_student_files ==
    /\ \E files \in [{"pass_file", "cat4_file", "academic_file"} -> BOOLEAN],
          readable \in BOOLEAN :
          fcall' = [op |-> "process_student_files",
                    engines |->
                       IF fcall.engines.pass_model = "None"
                          \/ fcall.engines.academic_model = "None"
                       THEN train_models(fcall.engines) ELSE fcall.engines,
                    returned |->
                       IF ~readable /\ \E file \in DOMAIN files : files[file]
                       THEN [status |-> "failed"]
                       ELSE analyze_student_data]
    /\ UNCHANGED <<student, profile>>

engine_generateInterventions ==
    /\ \E student_db \in SharedStudents(TrackPassNames, TrackCat4Names),
          is_fragile_learner \in BOOLEAN :
          LET analysed == process_student_result(student_db)
          IN  fcall' = [op |-> "generateInterventions", engines |-> fcall.engines,
                        returned |->
                           generateInterventions(analysed.pass_analysis,
                               analysed.cat4_analysis, analysed.academic_analysis,
                               is_fragile_learner)]
    /\ UNCHANGED <<student, profile>>

engine_track_progress ==
    /\ \E current_db \in SharedStudents(TrackPassNames, TrackCat4Names),
          previous_db \in SharedStudents(TrackPassNames, TrackCat4Names) :
          fcall' = [op |-> "track_progress", engines |-> fcall.engines,
                    returned |->
                       track_progress(process_student_result(current_db),
                           WithInterventions(process_student_result(previous_db)))]
    /\ UNCHANGED <<student, profile>>

engine_predict_risk ==
    /\ \E student_db \in SharedStudents(TrackPassNames, TrackCat4Names) :
          fcall' = [op |-> "predict_risk", engines |-> fcall.engines,
                    returned |-> predict_risk(process_student_result(student_db))]
    /\ UNCHANGED <<student, profile>>

NextEngines ==
    \/ engine_process_student_data
    \/ engine_process_student
    \/ engine_process_student_files
    \/ engine_generateInterventions
    \/ engine_track_progress
    \/ engine_predict_risk

SpecEngines == InitEngines /\ [][NextEngines]_vars

\* ============================================================ claims

IsIntegerStanine(n) == n % Scale = 0 /\ (n \div Scale) \in IntegerStanines

PassOps == {"_analyze_pass_data", "_format_pass_factors", "upload_pass_data"}
Cat4StanineOps == {"_analyze_cat4_data", "_format_cat4_domains"}
AcademicOps == {"_analyze_academic_data", "_format_academic_subjects", "upload_asset_data"}

C2_Cat4LevelsBySas ==
    fcall.op \in Cat4StanineOps =>
        LET sas == stanine_to_sas(fcall.arg)
        IN  /\ (sas < T(90) => fcall.level = "weakness")
            /\ (T(90) <= sas /\ sas <= T(110) => fcall.level = "balanced")
            /\ (sas > T(110) => fcall.level = "strength")

C5_RoundTrip ==
    /\ fcall.op = "stanine_to_sas" /\ IsIntegerStanine(fcall.arg) =>
          fcall.num = T(<<74, 81, 88, 96, 103, 112, 119, 127, 141>>[fcall.arg \div Scale])
    /\ fcall.op = "round_trip" /\ IsIntegerStanine(fcall.arg) =>
          fcall.num = fcall.arg \div Scale

\* C5 witness: stanine 6 has gone to SAS and come back as 6.
C5_Witness == fcall.op = "round_trip" /\ fcall.arg = T(6) /\ fcall.num = 6

\* The midpoint cut rule: 126 -> 9, 119 -> 8, 112 -> 7, 104 -> 6, 97 -> 5, 89 -> 4,
\* 82 -> 3, 74 -> 2, otherwise 1.
MidpointCut(m) ==
    IF m >= T(126) THEN 9
    ELSE IF m >= T(119) THEN 8
    ELSE IF m >= T(112) THEN 7
    ELSE IF m >= T(104) THEN 6
    ELSE IF m >= T(97) THEN 5
    ELSE IF m >= T(89) THEN 4
    ELSE IF m >= T(82) THEN 3
    ELSE IF m >= T(74) THEN 2
    ELSE 1

\* C6 as stated: sas_to_stanine follows the midpoint cut rule.
C6_MidpointRule ==
    fcall.op = "sas_to_stanine" => fcall.num = MidpointCut(fcall.arg)

\* C6 amended: sas_to_stanine returns the first stanine 1..8 whose table entry is
\* at least the SAS, and 9 when there is none; always a stanine in 1..9.
C6_UpperCutRule ==
    fcall.op = "sas_to_stanine" =>
        LET table == <<74, 81, 88, 96, 103, 112, 119, 127>>
            fits == {s \in DOMAIN table : fcall.arg <= T(table[s])}
        IN  /\ fcall.num \in 1..9
            /\ fits # {} => fcall.num \in fits /\ \A s \in fits : fcall.num <= s
            /\ fits = {} => fcall.num = 9

\* C6 witness: SAS 74 exactly has been converted, to stanine 1.
C6_Witness == fcall.op = "sas_to_stanine" /\ fcall.arg = T(74) /\ fcall.num = 1

\* The reference conversion: the stanine clamped to 1..9, the table entry of an
\* integer stanine, the linear interpolation between the neighbours of a decimal.
ReferenceSas(n) ==
    LET table == <<74, 81, 88, 96, 103, 112, 119, 127, 141>>
        clamped == IF n < T(1) THEN T(1) ELSE IF n > T(9) THEN T(9) ELSE n
        k == clamped \div Scale
        f == clamped % Scale
    IN  IF f = 0 THEN T(table[k]) ELSE T(table[k]) + (table[k + 1] - table[k]) * f

\* C7 as stated: every stanine_to_sas of the repository equals the reference
\* conversion, so its result lies in 74..141.
C7_ConverterIsReference ==
    fcall.op \in {"stanine_to_sas", "stanine_to_sas_simple"} =>
        /\ fcall.num = ReferenceSas(fcall.arg)
        /\ T(74) <= fcall.num /\ fcall.num <= T(141)

\* A profile an engine has produced (no exception on the way).
Produced == profile.engine # "none" /\ profile.raised = ""

\* The number of CAT4 domains of the profile that are classified 'weakness'.
WeaknessCount(p) ==
    IF Get(p.cat4_analysis, "available", FALSE)
    THEN Cardinality({i \in DOMAIN p.cat4_analysis.domains :
                         p.cat4_analysis.domains[i].level = "weakness"})
    ELSE 0

\* The step has appended one domain that classifies as 'weakness'.
AddsWeakDomain ==
    LET before == student.cat4_assessment.domains
        after == student'.cat4_assessment.domains
    IN  /\ Len(after) = Len(before) + 1
        /\ SubSeq(after, 1, Len(before)) = before
        /\ stanine_to_sas(after[Len(after)].stanine) < T(90)

\* The step has removed one domain that classified as 'weakness'.
RemovesWeakDomain ==
    LET before == student.cat4_assessment.domains
        after == student'.cat4_assessment.domains
    IN  \E i \in DOMAIN before :
            /\ after = RemoveAt(before, i)
            /\ stanine_to_sas(before[i].stanine) < T(90)

\* C4: is_fragile is true exactly when at least 2 CAT4 domains are classified
\* 'weakness'; adding a weak domain to exactly 1 flips it from false to true,
\* removing one of exactly 2 flips it back, and adding a weak domain never
\* turns it from true to false.
C4_FragileRule ==
    /\ [](profile.is_fragile_learner <=> WeaknessCount(profile) >= 2)
    /\ [][/\ AddsWeakDomain /\ WeaknessCount(profile) = 1 =>
                ~profile.is_fragile_learner /\ profile'.is_fragile_learner
          /\ RemovesWeakDomain /\ WeaknessCount(profile) = 2 =>
                profile.is_fragile_learner /\ ~profile'.is_fragile_learner
          /\ AddsWeakDomain /\ profile.is_fragile_learner =>
                profile'.is_fragile_learner]_vars

\* C4 witness: a third domain is there and exactly two of the three are weak,
\* with the profile flagged.
C4_Witness ==
    /\ Len(student.cat4_assessment.domains) = 3
    /\ WeaknessCount(profile) = 2
    /\ profile.is_fragile_learner

\* C8 as stated: a flagged profile has CAT4 available and at least 2 entries in
\* its CAT4 weakness list, and a profile without CAT4 is not flagged.
C8_FragileHasTwoWeaknesses ==
    Produced =>
        /\ profile.is_fragile_learner =>
              /\ Get(profile.cat4_analysis, "available", FALSE)
              /\ Len(Get(profile.cat4_analysis, "weaknessAreas", <<>>)) >= 2
        /\ ~Get(profile.cat4_analysis, "available", FALSE) =>
              ~profile.is_fragile_learner

Classified(analysis) ==
    IF "factors" \in DOMAIN analysis THEN analysis.factors
    ELSE IF "domains" \in DOMAIN analysis THEN analysis.domains
    ELSE IF "subjects" \in DOMAIN analysis THEN analysis.subjects
    ELSE <<>>

ListKeys == {"factors", "domains", "subjects", "riskAreas", "weaknessAreas", "strengthAreas"}

\* The student has a metric value of the domain.
HasPassMetric == student.pass_assessment.present /\ student.pass_assessment.factors # <<>>
HasCat4Metric == student.cat4_assessment.present /\ student.cat4_assessment.domains # <<>>
HasAcademicMetric ==
    \E i \in DOMAIN student.academic_assessments :
        student.academic_assessments[i].subjects # <<>>

AvailabilityRule(analysis, has_metric) ==
    /\ analysis.available <=> has_metric
    /\ ~analysis.available => DOMAIN analysis \cap ListKeys = {}
    /\ analysis.available => Len(Classified(analysis)) >= 1

\* C9 as stated: each of the three analyses is unavailable exactly when the
\* student has no metric of the domain, an unavailable analysis carries no list,
\* and an available one has at least one classified factor.
C9_AvailableIffMetric ==
    Produced =>
        /\ AvailabilityRule(profile.pass_analysis, HasPassMetric)
        /\ AvailabilityRule(profile.cat4_analysis, HasCat4Metric)
        /\ AvailabilityRule(profile.academic_analysis, HasAcademicMetric)

\* The names of the classified factors of one level, in their order.
NamesAtLevel(analysis, level) ==
    MapSeq(SelectSeq(Classified(analysis), LAMBDA f : f.level = level),
           LAMBDA f : f.name)

\* The names a risk/weakness/strength list holds, in its order.
AreaNames(areas) ==
    MapSeq(areas, LAMBDA a : IF "factor" \in DOMAIN a THEN a.factor
                             ELSE IF "domain" \in DOMAIN a THEN a.domain
                             ELSE a.subject)

\* C10 as stated: in an available PASS or CAT4 analysis the risk/weakness list
\* is the subsequence of the at-risk/weakness factors and the strength list is
\* the subsequence of the strength factors, both in the order of evaluation.
C10_ListsAreSubsequences ==
    Produced =>
        /\ profile.pass_analysis.available =>
              /\ AreaNames(profile.pass_analysis.riskAreas)
                    = NamesAtLevel(profile.pass_analysis, "at-risk")
              /\ AreaNames(profile.pass_analysis.strengthAreas)
                    = NamesAtLevel(profile.pass_analysis, "strength")
        /\ profile.cat4_analysis.available =>
              /\ AreaNames(profile.cat4_analysis.weaknessAreas)
                    = NamesAtLevel(profile.cat4_analysis, "weakness")
              /\ AreaNames(profile.cat4_analysis.strengthAreas)
                    = NamesAtLevel(profile.cat4_analysis, "strength")

\* The factors of the three analyses classified at one of the levels, each as
\* the summary would tag it: domain, name and raw score.
LevelEntries(p, levels) ==
    LET pa == p.pass_analysis
        ca == p.cat4_analysis
        aa == p.academic_analysis
    IN  {[domain |-> "PASS", factor |-> pa.factors[i].name,
          score |-> pa.factors[i].percentile] :
            i \in {j \in DOMAIN Classified(pa) : pa.factors[j].level \in levels}}
        \cup {[domain |-> "CAT4", factor |-> ca.domains[i].name,
               score |-> ca.domains[i].sas] :
            i \in {j \in DOMAIN Classified(ca) : ca.domains[j].level \in levels}}
        \cup {[domain |-> "Academic", factor |-> aa.subjects[i].name,
               score |-> aa.subjects[i].stanine] :
            i \in {j \in DOMAIN Classified(aa) : aa.subjects[j].level \in levels}}

\* The listed entries without their type tag.
Listed(top) ==
    {[domain |-> top[i].domain, factor |-> top[i].factor, score |-> top[i].score] :
        i \in DOMAIN top}

\* top is the first min(5, n) of the entries in the order `ahead`: no more than
\* 5, no entry twice, in order, and nothing left out ranks strictly ahead.
IsTopFive(top, entries, ahead(_, _)) ==
    /\ Len(top) = Least(5, Cardinality(entries))
    /\ Cardinality(Listed(top)) = Len(top)
    /\ Listed(top) \subseteq entries
    /\ \A i, j \in DOMAIN top : i < j => ~ahead(top[j].score, top[i].score)
    /\ \A e \in entries \ Listed(top) :
          \A i \in DOMAIN top : ~ahead(e.score, top[i].score)

\* C11: top_strengths is the first min(5, n) strength-level factors of the three
\* domains by score descending and top_weaknesses the first min(5, m)
\* risk/weakness-level factors by score ascending; neither is longer than 5 and
\* no omitted factor ranks strictly ahead of an included one.
C11_TopFive ==
    Produced =>
        /\ IsTopFive(profile.triangulated_summary.top_strengths,
                     LevelEntries(profile, {"strength"}), LAMBDA a, b : a > b)
        /\ IsTopFive(profile.triangulated_summary.top_weaknesses,
                     LevelEntries(profile, {"at-risk", "weakness"}), LAMBDA a, b : a < b)

\* C11 witness: six strength-level factors, five of them in top_strengths.
C11_Witness ==
    /\ Produced
    /\ Cardinality(LevelEntries(profile, {"strength"})) = 6
    /\ Len(profile.triangulated_summary.top_strengths) = 5

\* Twice the point score of the risk profile: 1 per PASS risk area (at most 3),
\* 0.5 per CAT4 weakness (at most 2), 2 for a fragile learner, 1 per academic
\* weakness (at most 3).
TwiceRiskPoints(p) ==
    Least(2 * Len(Get(p.pass_analysis, "riskAreas", <<>>)), 6)
    + Least(Len(Get(p.cat4_analysis, "weaknessAreas", <<>>)), 4)
    + (IF p.is_fragile_learner THEN 4 ELSE 0)
    + Least(2 * Len(Get(p.academic_analysis, "weaknessAreas", <<>>)), 6)

RiskProfileOf(p) ==
    IF TwiceRiskPoints(p) >= 14 THEN "High"
    ELSE IF TwiceRiskPoints(p) >= 8 THEN "Medium"
    ELSE "Low"

\* C12 as stated: the triangulated summary holds a risk_profile, High when the
\* point score is at least 7, Medium when at least 4, otherwise Low.
C12_RiskProfile ==
    Produced =>
        /\ "risk_profile" \in DOMAIN profile.triangulated_summary
        /\ profile.triangulated_summary.risk_profile = RiskProfileOf(profile)

MapperOps == {"generateInterventions", "_generate_interventions"}

\* The positions of the returned list that hold a record of one domain.
RecordsOfDomain(domain) ==
    {i \in DOMAIN fcall.interventions : fcall.interventions[i].domain = domain}

\* C13 as stated: a call with is_fragile = true returns exactly one holistic
\* record, of priority high, whatever the analyses are; a call with
\* is_fragile = false returns no holistic record.
C13_HolisticRecord ==
    fcall.op \in MapperOps =>
        /\ fcall.is_fragile_learner =>
              /\ Cardinality(RecordsOfDomain("holistic")) = 1
              /\ \A i \in RecordsOfDomain("holistic") :
                    fcall.interventions[i].priority = "high"
        /\ ~fcall.is_fragile_learner => RecordsOfDomain("holistic") = {}

\* The rank of the three priorities the ordering is defined for.
PriorityRank(priority) ==
    CASE priority = "high" -> 0 [] priority = "medium" -> 1 [] priority = "low" -> 2

\* C14 as stated: in the returned list no record of priority high, medium or
\* low is preceded by a record of strictly lower priority among these three.
C14_OrderedByPriority ==
    fcall.op \in MapperOps =>
        \A i, j \in DOMAIN fcall.interventions :
            (/\ i < j
             /\ fcall.interventions[i].priority \in {"high", "medium", "low"}
             /\ fcall.interventions[j].priority \in {"high", "medium", "low"})
            => PriorityRank(fcall.interventions[i].priority)
                  <= PriorityRank(fcall.interventions[j].priority)

\* The record was generated for the PASS factor / the CAT4 domain of this name:
\* generateInterventions copies the name into 'factor', _generate_interventions
\* writes the factor's P-number or the domain into 'trigger'.
RecordIsForFactor(record, name) ==
    IF "factor" \in DOMAIN record
    THEN record.domain = "emotional" /\ record.factor = <<name>>
    ELSE record.trigger = <<"PASS", pass_p_mapping(name), "at risk">>

RecordIsForDomain(record, name) ==
    IF "factor" \in DOMAIN record
    THEN record.domain = "cognitive" /\ record.factor = <<name>>
    ELSE record.domain = "cognitive" /\ name = "Verbal"
         /\ record.trigger = <<"CAT4 Verbal SAS < 90">>

\* C15 as stated: every PASS risk area and every CAT4 weakness of an available
\* analysis has at least one record of the returned list generated for it.
C15_EveryRiskMapped ==
    fcall.op \in MapperOps =>
        /\ \A k \in DOMAIN Get(fcall.pass_analysis, "riskAreas", <<>>) :
              \E i \in DOMAIN fcall.interventions :
                  RecordIsForFactor(fcall.interventions[i],
                                    fcall.pass_analysis.riskAreas[k].factor)
        /\ \A k \in DOMAIN Get(fcall.cat4_analysis, "weaknessAreas", <<>>) :
              \E i \in DOMAIN fcall.interventions :
                  RecordIsForDomain(fcall.interventions[i],
                                    fcall.cat4_analysis.weaknessAreas[k].domain)

\* The strings of the record's title (generateInterventions) or intervention
\* text (_generate_interventions).
TitleParts(record) ==
    LET text == IF "title" \in DOMAIN record THEN record.title ELSE record.intervention
    IN  {text[i] : i \in DOMAIN text}

\* The academic records of the returned list that carry this subject's name.
AcademicRecordsFor(name) ==
    {i \in RecordsOfDomain("academic") : name \in TitleParts(fcall.interventions[i])}

\* C16: the returned list holds exactly one academic record, carrying the
\* subject's name, for each subject classified 'weakness' and none for a
\* subject classified 'balanced' or 'strength'.
C16_OneRecordPerWeakSubject ==
    fcall.op \in MapperOps =>
        LET subjects == Get(fcall.academic_analysis, "subjects", <<>>)
            weak == {k \in DOMAIN subjects : subjects[k].level = "weakness"}
        IN  /\ \A k \in DOMAIN subjects :
                  Cardinality(AcademicRecordsFor(subjects[k].name))
                      = IF k \in weak THEN 1 ELSE 0
            /\ Cardinality(RecordsOfDomain("academic")) = Cardinality(weak)

\* C16 witness: English 8, Maths 3, Science 5 went through generateInterventions
\* and the one academic record returned is the one for Maths.
C16_Witness ==
    /\ fcall.op = "generateInterventions"
    /\ Get(fcall.academic_analysis, "available", FALSE)
    /\ MapSeq(fcall.academic_analysis.subjects, LAMBDA x : x.stanine)
          = <<T(8), T(3), T(5)>>
    /\ Cardinality(RecordsOfDomain("academic")) = 1
    /\ AcademicRecordsFor("Maths") # {}

RiskOps == {"predict_risk", "get_student_risk_prediction"}

\* The level of a score by the cut points 0.7, 0.4 and 0.3.
LevelByCutPoints(score) ==
    IF 10 * score.num >= 7 * score.den THEN "high"
    ELSE IF 10 * score.num >= 4 * score.den THEN "medium"
    ELSE IF 10 * score.num >= 3 * score.den THEN "borderline"
    ELSE "low"

\* a = 0.7 * c + 0.3 * e, as fractions
IsWeightedSum(a, c, e) ==
    a = Fraction(7 * c.num * e.den + 3 * e.num * c.den, 10 * c.den * e.den)

\* C18 as stated: predict_risk scores 0.7 * current + 0.3 * early, and predict_risk
\* and the risk-prediction route both give the level high from 0.7, medium
\* from 0.4, borderline from 0.3 and low below.
C18_RiskLevelCutPoints ==
    /\ fcall.op = "predict_risk" =>
          IsWeightedSum(fcall.overall_risk_score, fcall.current_score, fcall.early_score)
    /\ fcall.op \in RiskOps => fcall.risk_level = LevelByCutPoints(fcall.overall_risk_score)

\* The margin of the early-warning scan for the factor an indicator is about.
EarlyMargin(indicator) ==
    CASE indicator = "Self-Regard Approaching Risk" -> T(50)
      [] indicator = "Work Ethic Approaching Risk" -> T(55)
      [] indicator = "Emotional Control Approaching Risk" -> T(50)

\* C19 as stated: every early indicator is about a factor at or above the
\* at-risk threshold 45 and within its margin, and no PASS factor is both a
\* current risk factor and the subject of an early indicator.
C19_EarlyWarningNotAtRisk ==
    fcall.op = "predict_risk" =>
        \A i \in DOMAIN fcall.early_indicators :
            LET warning == fcall.early_indicators[i]
            IN  /\ warning.percentile >= T(45)
                /\ warning.percentile <= EarlyMargin(warning.indicator)
                /\ \A k \in DOMAIN fcall.risk_factors :
                      fcall.risk_factors[k].domain = "PASS" =>
                          fcall.risk_factors[k].factor # warning.name

ProgressOps ==
    {"_analyze_pass_progress", "_analyze_cat4_progress", "_analyze_academic_progress"}

\* The value of the item of this name in an analysis (names are distinct).
ValueOf(analysis, name, field) ==
    LET items == Classified(analysis)
    IN  items[CHOOSE i \in DOMAIN items : items[i].name = name][field]

NamesOf(analysis) ==
    {Classified(analysis)[i].name : i \in DOMAIN Classified(analysis)}

\* C20: for every factor, domain or subject named in both periods the comparator
\* reports change = current - previous, isSignificant = (|change| >= threshold)
\* with threshold 5 for PASS and 0.5 for CAT4 and Academic, and direction
\* improved / declined / unchanged by the sign of change; a name present in
\* only one period is not reported.
C20_ProgressComparator ==
    fcall.op \in ProgressOps /\ fcall.progress.available =>
        LET field == IF fcall.op = "_analyze_pass_progress" THEN "percentile"
                     ELSE "stanine"
            reported == fcall.progress.analysis
        IN  /\ DOMAIN reported = NamesOf(fcall.current) \cap NamesOf(fcall.previous)
            /\ \A name \in DOMAIN reported :
                  LET change == ValueOf(fcall.current, name, field)
                                - ValueOf(fcall.previous, name, field)
                      size == IF change < 0 THEN 0 - change ELSE change
                  IN  /\ reported[name].change = change
                      /\ reported[name].isSignificant
                            <=> IF fcall.op = "_analyze_pass_progress"
                                THEN size >= T(5) ELSE 2 * size >= T(1)
                      /\ change > 0 <=> reported[name].direction = "improved"
                      /\ change < 0 <=> reported[name].direction = "declined"
                      /\ change = 0 <=> reported[name].direction = "unchanged"

\* C20 witness: a PASS factor went from 30 to 35 and is reported improved by
\* exactly the threshold, significant, while a factor of the current period
\* alone is not reported.
C20_Witness ==
    /\ fcall.op = "_analyze_pass_progress"
    /\ fcall.progress.available
    /\ \E name \in DOMAIN fcall.progress.analysis :
          /\ fcall.progress.analysis[name].change = T(5)
          /\ fcall.progress.analysis[name].isSignificant
          /\ fcall.progress.analysis[name].direction = "improved"
    /\ NamesOf(fcall.current) \ NamesOf(fcall.previous) # {}

\* The analysis of a domain in a profile or in a progress result.
DomainKeys == {"pass_analysis", "cat4_analysis", "academic_analysis"}

DomainLabel(key) ==
    CASE key = "pass_analysis" -> "PASS"
      [] key = "cat4_analysis" -> "CAT4"
      [] key = "academic_analysis" -> "Academic"

AreasOf(progress) == progress.improvementAreas \o progress.concernAreas

\* C21: track_progress without previous data returns hasBaseline = FALSE; a
\* domain unavailable in the current or the previous period has a progress
\* analysis with available = FALSE and no improvement or concern area; and
\* predict_risk reports no risk factor of a domain that is unavailable.
C21_MissingDomain ==
    /\ fcall.op = "track_progress" =>
          /\ fcall.previous_data = << >> => ~fcall.progress.hasBaseline
          /\ fcall.previous_data # << >> =>
                /\ fcall.progress.hasBaseline
                /\ \A key \in DomainKeys :
                      ~(fcall.current_data[key].available
                        /\ fcall.previous_data[key].available) =>
                          /\ ~fcall.progress[key].available
                          /\ \A i \in DOMAIN AreasOf(fcall.progress) :
                                AreasOf(fcall.progress)[i].domain # DomainLabel(key)
    /\ fcall.op = "predict_risk" =>
          \A key \in DomainKeys :
              ~fcall.current_data[key].available =>
                  \A i \in DOMAIN fcall.risk_factors :
                      fcall.risk_factors[i].domain # DomainLabel(key)

\* C21 witness: a comparison in which CAT4 is missing from the previous period
\* while PASS, present in both, contributes an area.
C21_Witness ==
    /\ fcall.op = "track_progress"
    /\ fcall.previous_data # << >>
    /\ fcall.current_data.cat4_analysis.available
    /\ ~fcall.previous_data.cat4_analysis.available
    /\ \E i \in DOMAIN fcall.progress.improvementAreas :
          fcall.progress.improvementAreas[i].domain = "PASS"

\* The entries an area list holds for a compared item.
EntriesFor(areas, label, name) ==
    SelectSeq(areas, LAMBDA area : area.domain = label /\ area.factor = name)

\* C30: with a baseline, a compared factor is in improvementAreas exactly when
\* its change is > 0 and in concernAreas exactly when its change is < 0, and an
\* entry is marked 'significant' exactly when the factor's isSignificant flag
\* is set, 'slight' otherwise.
C30_AreasFollowChange ==
    fcall.op = "track_progress" /\ fcall.progress.hasBaseline =>
        \A key \in DomainKeys :
            fcall.progress[key].available =>
                \A name \in DOMAIN fcall.progress[key].analysis :
                    LET compared == fcall.progress[key].analysis[name]
                        better == EntriesFor(fcall.progress.improvementAreas,
                                             DomainLabel(key), name)
                        worse == EntriesFor(fcall.progress.concernAreas,
                                            DomainLabel(key), name)
                    IN  /\ Len(better) = (IF compared.change > 0 THEN 1 ELSE 0)
                        /\ Len(worse) = (IF compared.change < 0 THEN 1 ELSE 0)
                        /\ \A i \in DOMAIN (better \o worse) :
                              (better \o worse)[i].significance =
                                 (IF compared.isSignificant THEN "significant"
                                  ELSE "slight")

\* C30 witness: a PASS factor that fell by exactly the threshold of 5 is a
\* significant concern while a CAT4 domain that rose is an improvement area.
C30_Witness ==
    /\ fcall.op = "track_progress"
    /\ fcall.progress.hasBaseline
    /\ \E i \in DOMAIN fcall.progress.concernAreas :
          /\ fcall.progress.concernAreas[i].domain = "PASS"
          /\ fcall.progress.concernAreas[i].change = 0 - T(5)
          /\ fcall.progress.concernAreas[i].significance = "significant"
    /\ \E i \in DOMAIN fcall.progress.improvementAreas :
          /\ fcall.progress.improvementAreas[i].domain = "CAT4"
          /\ fcall.progress.improvementAreas[i].factor # "Fragile Learner Status"

\* C22: a CAT4 domain whose SAS is absent, null or 0 is stored as no domain and
\* counts as no weakness: the stored fragile_flags is the number of stored
\* domains with level 'weakness' and the stored is_fragile_learner is
\* (fragile_flags >= 2).
C22_MissingSasNotCounted ==
    student.cat4_assessment.present =>
        LET domains == student.cat4_assessment.domains
        IN  /\ student.cat4_assessment.fragile_flags =
                  Cardinality({i \in DOMAIN domains : domains[i].level = "weakness"})
            /\ student.cat4_assessment.is_fragile_learner
                  = (student.cat4_assessment.fragile_flags >= 2)

\* C23: whatever public engine methods were called, in whatever order, every
\* table and every other field of the engines has the value it had after
\* construction.
C23_EnginesUnchanged ==
    fcall.engines = ConstructedEngines

\* The number of intervention templates a trigger maps to.
PassTemplates(op, factor) ==
    IF op = "generateInterventions"
    THEN Len(emotional_interventions(ReplaceSpace(factor)))
    ELSE IF pass_p_mapping(factor) \in {"P3", "P7", "P4", "P6", "P5", "P8"}
         THEN 1 ELSE 0

Cat4Templates(op, weakness) ==
    IF op = "generateInterventions"
    THEN Len(cognitive_interventions(ReplaceSpace(weakness.domain)))
    ELSE IF weakness.domain = "Verbal" /\ weakness.sas < T(90) THEN 1 ELSE 0

FragileTemplates(op, cat4_analysis, is_fragile_learner) ==
    IF ~is_fragile_learner THEN 0
    ELSE IF op = "generateInterventions"
         THEN (IF Get(cat4_analysis, "available", FALSE) THEN 1 ELSE 0)
    ELSE 1

AcademicTriggers(op, academic_analysis) ==
    IF ~Get(academic_analysis, "available", FALSE) THEN 0
    ELSE IF op = "generateInterventions"
         THEN Len(SelectSeq(Get(academic_analysis, "subjects", <<>>),
                            LAMBDA subject : Get(subject, "level", "") = "weakness"))
    ELSE Len(Get(academic_analysis, "weaknessAreas", <<>>))

\* C24: the returned list holds one record per (trigger, template) pair: its
\* length is the sum over the triggers of the number of templates of each, and
\* PASS factors that share a template (P3 and P7, P4 and P6) each have their
\* own record.
C24_NotDeduplicated ==
    fcall.op \in MapperOps =>
        LET risks == IF Get(fcall.pass_analysis, "available", FALSE)
                     THEN Get(fcall.pass_analysis, "riskAreas", <<>>) ELSE <<>>
            weaknesses == IF Get(fcall.cat4_analysis, "available", FALSE)
                          THEN Get(fcall.cat4_analysis, "weaknessAreas", <<>>)
                          ELSE <<>>
        IN  /\ Len(fcall.interventions) =
                  SumSeq([k \in DOMAIN risks |-> PassTemplates(fcall.op, risks[k].factor)])
                  + SumSeq([k \in DOMAIN weaknesses |->
                               Cat4Templates(fcall.op, weaknesses[k])])
                  + FragileTemplates(fcall.op, fcall.cat4_analysis,
                                     fcall.is_fragile_learner)
                  + AcademicTriggers(fcall.op, fcall.academic_analysis)
            /\ \A k \in DOMAIN risks :
                  PassTemplates(fcall.op, risks[k].factor) > 0 =>
                      \E i \in DOMAIN fcall.interventions :
                          RecordIsForFactor(fcall.interventions[i], risks[k].factor)

\* C24 witness: P3 and P7 are both at risk and the list holds two records with
\* the one intervention they share.
C24_Witness ==
    /\ fcall.op = "_generate_interventions"
    /\ \E i, j \in DOMAIN fcall.interventions :
          /\ i < j
          /\ fcall.interventions[i].trigger = <<"PASS", "P3", "at risk">>
          /\ fcall.interventions[j].trigger = <<"PASS", "P7", "at risk">>
          /\ fcall.interventions[i].intervention = fcall.interventions[j].intervention

\* C25: the level the upload stored for a CAT4 domain, computed from its SAS,
\* is the level the triangulated engine recomputes from the stored stanine
\* (the SAS taken to a stanine and back), and the stored fragile flag is the
\* recomputed one.
C25_StoredLevelIsRecomputed ==
    /\ Produced
    /\ profile.engine = "TriangulatedAnalyticsEngine"
    /\ Get(profile.cat4_analysis, "available", FALSE)
    => /\ \A i \in DOMAIN student.cat4_assessment.domains :
             profile.cat4_analysis.domains[i].level
                = student.cat4_assessment.domains[i].level
       /\ profile.cat4_analysis.is_fragile_learner
             = student.cat4_assessment.is_fragile_learner

\* C26: whatever uploads have run, the student has at most one academic
\* assessment (and one PASS and one CAT4 assessment), and no step changes an
\* assessment the student already has: the first upload wins, and a file
\* uploaded again leaves the database as the first upload left it.
C26_FirstUploadWins ==
    [][ /\ Len(student'.academic_assessments) <= 1
        /\ student.academic_assessments # <<>> =>
               student'.academic_assessments = student.academic_assessments
        /\ student.pass_assessment.present =>
               student'.pass_assessment = student.pass_assessment
        /\ student.cat4_assessment.present =>
               student'.cat4_assessment = student.cat4_assessment ]_vars

\* C26 witness: the student holds one assessment of each type, the PASS and
\* the CAT4 one with stored records.
C26_Witness ==
    /\ Len(student.academic_assessments) = 1
    /\ student.pass_assessment.present
    /\ student.pass_assessment.factors # <<>>
    /\ student.cat4_assessment.present
    /\ student.cat4_assessment.domains # <<>>

\* C27: while the student is unknown, a step either leaves the database as it
\* is (the PASS and CAT4 uploads skip the row) or creates the student together
\* with the academic assessment (the asset upload), and it attaches no PASS or
\* CAT4 assessment; so an assessment is only ever held by a created student.
C27_OnlyAssetCreatesStudents ==
    [][ /\ ~student.exists =>
               \/ student' = student
               \/ /\ student'.exists
                  /\ student'.academic_assessments # <<>>
                  /\ student'.pass_assessment = student.pass_assessment
                  /\ student'.cat4_assessment = student.cat4_assessment
        /\ student'.pass_assessment.present \/ student'.cat4_assessment.present
               => student'.exists ]_vars

\* C27 witness: a student the asset upload created, to whom the PASS upload
\* then attached an assessment, and who has no CAT4 assessment.
C27_Witness ==
    /\ student.exists
    /\ student.academic_assessments # <<>>
    /\ student.pass_assessment.present
    /\ ~student.cat4_assessment.present

\* C29: in the risk-prediction route a student whose computed
\* is_fragile_learner is true gets risk_level 'high' (the two or more CAT4
\* weaknesses and the fragile addition sum to 0.8 or more), and the
\* overall_risk_score lies in [0, 1].
C29_FragileIsHighRisk ==
    fcall.op = "get_student_risk_prediction" =>
        /\ fcall.is_fragile_learner =>
               /\ fcall.risk_level = "high"
               /\ 5 * fcall.overall_risk_score.num >= 4 * fcall.overall_risk_score.den
        /\ fcall.overall_risk_score.num >= 0
        /\ fcall.overall_risk_score.den > 0
        /\ fcall.overall_risk_score.num <= fcall.overall_risk_score.den

\* C29 witness: a fragile learner with two CAT4 weaknesses and no other
\* finding, whose score is exactly 0.8 and whose level is 'high'.
C29_Witness ==
    /\ fcall.op = "get_student_risk_prediction"
    /\ fcall.is_fragile_learner
    /\ Len(Get(fcall.cat4_analysis, "weaknessAreas", <<>>)) = 2
    /\ 5 * fcall.overall_risk_score.num = 4 * fcall.overall_risk_score.den
    /\ fcall.risk_level = "high"

\* C28: after the fragile-learner recalculation step of a migration, a student
\* who had a CAT4 assessment has fragile_flags equal to the number of stored
\* domains with SAS below 90, and the student's flag and the assessment's flag
\* both say whether that number is 2 or more.
C28_RecalculatedFlags ==
    /\ fcall.op \in {"recalculate_fragile_learner_status", "run_migration",
                     "run_fixed_migration", "fix_classifications"}
    /\ fcall.with_cat4
    => LET a == student.cat4_assessment
           below == Cardinality({i \in DOMAIN a.domains :
                                    a.domains[i].sas_score < T(90)})
       IN  /\ a.fragile_flags = below
           /\ student.is_fragile_learner = (below >= 2)
           /\ a.is_fragile_learner = (below >= 2)

=============================================================================
